---- MODULE Spec2Model ----
(***************************************************************************)
(* State-machine model of the AutoML backend's orchestration core:        *)
(*   - jobs/discovery.py : discovery_crawl (fan-out merge), the relevance  *)
(*     scoring loop with its TTL cache, and the enrichment cascade of      *)
(*     select_best_source;                                                 *)
(*   - training/trainer.py : Trainer.train (dataset fallback with bounded  *)
(*     retries and the structural-error short-circuit);                    *)
(*   - orchestrator.py : Orchestrator.run (the four workflow stages);      *)
(*   - api/training.py : start_training (choice of the dataset), the job   *)
(*     registry and its worker run_training_sync.                          *)
(* The external collaborators (search, scoring, scrape, schema detection,  *)
(* the Modal job, dataset discovery, architecture selection, benchmark)    *)
(* are nondeterministic choices over their result shapes.                  *)
(***************************************************************************)
EXTENDS Integers, Sequences, FiniteSets, TLC

VARIABLES
    \* ---- the discovery pipeline (jobs/discovery.py, api/discovery.py) ----
    world,             \* what the providers can find, and how many runs are made
    now,               \* datetime.now(), in hours
    relevance_cache,   \* the relevance_cache collection: a set of documents
    discovery_projects,\* the discovery_projects collection, by project id
    run,               \* the pipeline run in progress: its position and locals
    runs_started,      \* number of runs started so far
    \* ---- discovery_crawl in isolation (jobs/discovery.py:114-175) ----
    c_pc,             \* "idle" | "gather" | "done"
    queries_left,     \* queries firecrawl_search has still to issue
    firecrawl_task,   \* [state: "running" | "done" | "failed", sources]
    kaggle_task,      \* [state: "running" | "done", sources]
    firecrawl_results,\* after the exception handling at lines 144-146
    kaggle_results,   \* after the exception handling at lines 147-149
    all_sources,      \* the merged list discovery_crawl returns
    \* ---- Trainer.train (training/trainer.py) ----
    t_pc,             \* "idle" | "attempt" | "returned" | "raised"
    dataset,          \* ref of the primary dataset (argument)
    fallback_datasets,\* refs of the fallback datasets (argument)
    max_retries,      \* Trainer.max_retries
    datasets_to_try,  \* list built at lines 75-79
    ds_idx,           \* 1-based position in datasets_to_try
    attempt,          \* current attempt number of the retry loop
    last_error,       \* last_error local
    result,           \* the TrainingResult returned by train
    submissions,      \* history of _run_modal_training calls (observer)
    \* ---- Orchestrator.run (orchestrator.py) ----
    o_pc,             \* "idle" | the stage about to run | "returned" | "raised"
    o_args,           \* dataset_ref, skip_training, skip_benchmark, model file exists
    o_result,         \* the WorkflowResult under construction
    o_calls,          \* history of the stage collaborators' calls (observer)
    \* ---- the training API (api/training.py) ----
    j_world,          \* the project document start_training finds, and how many jobs are started
    jobs,             \* the in-memory job registry, by job id
    workers,          \* run_training_sync per job: its position, arguments and locals
    request           \* the TrainRequest start_training handled last

trainVars == <<t_pc, dataset, fallback_datasets, max_retries, datasets_to_try,
               ds_idx, attempt, last_error, result, submissions>>

crawlVars == <<c_pc, queries_left, firecrawl_task, kaggle_task,
               firecrawl_results, kaggle_results, all_sources>>

pipelineVars == <<world, now, relevance_cache, discovery_projects, run, runs_started>>

orchVars == <<o_pc, o_args, o_result, o_calls>>

jobVars == <<j_world, jobs, workers, request>>

otherThanCrawl == <<pipelineVars, trainVars, orchVars, jobVars>>
otherThanTrain == <<pipelineVars, crawlVars, orchVars, jobVars>>
otherThanPipeline == <<crawlVars, trainVars, orchVars, jobVars>>
otherThanOrchestrator == <<pipelineVars, crawlVars, trainVars, jobVars>>
otherThanJobs == <<pipelineVars, crawlVars, trainVars, orchVars>>

vars == <<pipelineVars, crawlVars, trainVars, orchVars, jobVars>>

\* All sequences over S of length at most n.
RECURSIVE SeqsUpTo(_, _)
SeqsUpTo(S, n) ==
    IF n = 0 THEN {<<>>}
    ELSE LET shorter == SeqsUpTo(S, n - 1)
         IN shorter \cup {Append(s, x) : s \in shorter, x \in S}

(***************************************************************************)
(*                    URLs and FirecrawlService.normalize_url              *)
(***************************************************************************)

\* A URL is kept as the parts urlparse and normalize_url tell apart:
\* scheme, an optional "www." prefix of the netloc, the rest of the netloc,
\* the path without trailing slashes, whether trailing slashes follow,
\* whether some letter is upper-case, and whether a query or fragment follows.
Url(scheme, www, host, path, slash, upper, query) ==
    [scheme |-> scheme, www |-> www, host |-> host, path |-> path,
     slash |-> slash, upper |-> upper, query |-> query]

\* normalize_url: f"{scheme}://{netloc}{path}" drops query and fragment,
\* lower() folds the case, rstrip("/") drops trailing slashes and
\* replace("://www.", "://") drops the www. prefix.  The scheme is kept.
NormalizeUrl(url) ==
    [url EXCEPT !.www = FALSE, !.slash = FALSE, !.upper = FALSE, !.query = FALSE]

\* Optional[int] fields: None is the empty tuple, a value v is <<v>>.
None == <<>>
Some(v) == <<v>>

\* Source(url=..., status="pending_validation"[, source_type="Dataset"])
Source(url, source_type) ==
    [url |-> url, status |-> "pending_validation", source_type |-> source_type,
     relevance_score |-> None]

(***************************************************************************)
(*                             discovery_crawl                             *)
(***************************************************************************)

\* Bounds of the crawl model.
MaxQueries == 2
MaxKaggleDocs == 2

DataGov == Url("https", FALSE, "data.gov", "/sets", FALSE, FALSE, FALSE)
KaggleSet == Url("https", TRUE, "kaggle.com", "/datasets/o/n", FALSE, FALSE, FALSE)

\* What a Firecrawl search may return: variants of one page that normalize
\* to the same identity, the same page over http, and a Kaggle page.
CrawlUrls ==
    { DataGov,
      [DataGov EXCEPT !.www = TRUE],
      [DataGov EXCEPT !.slash = TRUE, !.upper = TRUE],
      [DataGov EXCEPT !.query = TRUE],
      [DataGov EXCEPT !.scheme = "http"],
      KaggleSet }

\* What the kaggle_datasets collection may hold as a document's url.
KaggleUrls ==
    { KaggleSet,
      [KaggleSet EXCEPT !.www = FALSE, !.slash = TRUE],
      [DataGov EXCEPT !.www = TRUE] }

\* One firecrawl_service.search call (firecrawl.py:48-92): the result list,
\* empty when the request failed.
SearchResults == {<<>>} \cup {<<u>> : u \in CrawlUrls}

RECURSIVE MergeLoopLastWins(_, _, _)
MergeLoopLastWins(list, seen_urls, merged) ==
    IF list = <<>> THEN merged
    ELSE LET source == Head(list)
             rest == MergeLoopLastWins(Tail(list), seen_urls, merged)
         IN  IF \E i \in 1..Len(rest) : NormalizeUrl(rest[i].url) = NormalizeUrl(source.url)
             THEN rest
             ELSE <<source>> \o rest

\* lines 152-156: the loop over list(firecrawl_results) + list(kaggle_results)
RECURSIVE MergeLoop(_, _, _)
MergeLoop(list, seen_urls, merged) ==
    IF list = <<>> THEN merged
    ELSE LET source == Head(list)
             normalized_url == NormalizeUrl(source.url)
         IN  IF normalized_url \notin seen_urls
             THEN MergeLoop(Tail(list), seen_urls \cup {normalized_url},
                            Append(merged, source))
             ELSE MergeLoop(Tail(list), seen_urls, merged)

MergeSourcesInCompletionOrder(fc, kg) ==
    IF kaggle_task.order < firecrawl_task.order
    THEN MergeLoop(kg \o fc, {}, <<>>)
    ELSE MergeLoop(fc \o kg, {}, <<>>)

\* lines 119-120 and 151-156
MergeSources(fc, kg) == MergeLoop(fc \o kg, {}, <<>>)

TaskResultsKeepPartial(task) == task.sources

\* lines 144-149: a task that ended with an exception counts as an empty list
TaskResults(task) == IF task.state = "failed" THEN <<>> ELSE task.sources

\* lines 136-141: a task ends as the first or the second of the two (the
\* order in which the event loop completes them; 0: not ended)
CompletionOrder(other_task) == IF other_task.state = "running" THEN 1 ELSE 2

CrawlInit ==
    /\ c_pc = "idle"
    /\ queries_left = 0
    /\ firecrawl_task = [state |-> "done", sources |-> <<>>, order |-> 0]
    /\ kaggle_task = [state |-> "done", sources |-> <<>>, order |-> 0]
    /\ firecrawl_results = <<>>
    /\ kaggle_results = <<>>
    /\ all_sources = <<>>

\* lines 116-141: both tasks are created and gathered
CrawlStart ==
    /\ c_pc = "idle"
    /\ \E n \in 0..MaxQueries : queries_left' = n
    /\ firecrawl_task' = [state |-> "running", sources |-> <<>>, order |-> 0]
    /\ kaggle_task' = [state |-> "running", sources |-> <<>>, order |-> 0]
    /\ c_pc' = "gather"
    /\ UNCHANGED <<firecrawl_results, kaggle_results, all_sources>>
    /\ UNCHANGED otherThanCrawl

\* lines 125-132: one query of firecrawl_search
FirecrawlSearch ==
    /\ c_pc = "gather"
    /\ firecrawl_task.state = "running"
    /\ queries_left > 0
    /\ \E results \in SearchResults :
         firecrawl_task' =
             [firecrawl_task EXCEPT
                !.sources = @ \o [i \in 1..Len(results) |-> Source(results[i], "None")]]
    /\ queries_left' = queries_left - 1
    /\ UNCHANGED <<c_pc, kaggle_task, firecrawl_results, kaggle_results, all_sources>>
    /\ UNCHANGED otherThanCrawl

\* line 133: firecrawl_search returns
FirecrawlReturns ==
    /\ c_pc = "gather"
    /\ firecrawl_task.state = "running"
    /\ queries_left = 0
    /\ firecrawl_task' = [firecrawl_task EXCEPT !.state = "done",
                                               !.order = CompletionOrder(kaggle_task)]
    /\ UNCHANGED <<c_pc, queries_left, kaggle_task, firecrawl_results,
                   kaggle_results, all_sources>>
    /\ UNCHANGED otherThanCrawl

\* lines 128-132: Source(url=result.url) raises when a result carries no
\* string url; the task ends with that exception
FirecrawlRaises ==
    /\ c_pc = "gather"
    /\ firecrawl_task.state = "running"
    /\ queries_left > 0
    /\ firecrawl_task' = [firecrawl_task EXCEPT !.state = "failed",
                                               !.order = CompletionOrder(kaggle_task)]
    /\ UNCHANGED <<c_pc, queries_left, kaggle_task, firecrawl_results,
                   kaggle_results, all_sources>>
    /\ UNCHANGED otherThanCrawl

\* search_kaggle_datasets (lines 76-111): the documents found, each turned
\* into a Source of type Dataset; an error inside ends the list early
KaggleReturns ==
    /\ c_pc = "gather"
    /\ kaggle_task.state = "running"
    /\ \E urls \in SeqsUpTo(KaggleUrls, MaxKaggleDocs) :
         kaggle_task' = [state |-> "done",
                         sources |-> [i \in 1..Len(urls) |-> Source(urls[i], "Dataset")],
                         order |-> CompletionOrder(firecrawl_task)]
    /\ UNCHANGED <<c_pc, queries_left, firecrawl_task, firecrawl_results,
                   kaggle_results, all_sources>>
    /\ UNCHANGED otherThanCrawl

\* lines 139-156: gather has both outcomes; exceptions become empty lists
\* and the two lists are merged
CrawlMerge ==
    /\ c_pc = "gather"
    /\ firecrawl_task.state # "running"
    /\ kaggle_task.state # "running"
    /\ firecrawl_results' = TaskResults(firecrawl_task)
    /\ kaggle_results' = TaskResults(kaggle_task)
    /\ all_sources' = MergeSources(TaskResults(firecrawl_task), TaskResults(kaggle_task))
    /\ c_pc' = "done"
    /\ UNCHANGED <<queries_left, firecrawl_task, kaggle_task>>
    /\ UNCHANGED otherThanCrawl

CrawlNext ==
    \/ CrawlStart
    \/ FirecrawlSearch
    \/ FirecrawlReturns
    \/ FirecrawlRaises
    \/ KaggleReturns
    \/ CrawlMerge


(***************************************************************************)
(*        The discovery pipeline: stores, collaborators and helpers        *)
(***************************************************************************)

\* Bounds of the pipeline model.
MaxRuns == 2
MaxTicks == 1
TickHours == 24

\* MIN_HIGH_QUALITY_SOURCES (discovery.py:21)
MIN_HIGH_QUALITY_SOURCES == 5
\* is_high_quality = relevance_score > 70 (discovery.py:236)
RelevanceThreshold == 70
\* expires_at = now + timedelta(hours=24) (discovery.py:227)
CacheTtlHours == 24

ProjectIds == {"p1", "p2"}
Prompts == {"house prices", "crop yields"}

\* openrouter_service.parse_intent: the target the LLM extracts from a prompt
TargetOf(prompt) == IF prompt = "house prices" THEN "price" ELSE "yield"

\* What the two providers can return in a pipeline run: a prefix of the
\* world's catalogue for that provider.
FirecrawlCatalogue ==
    << DataGov,
       Url("https", FALSE, "example.com", "/data", FALSE, FALSE, FALSE),
       Url("https", FALSE, "stats.edu", "/tables", FALSE, FALSE, FALSE),
       Url("https", FALSE, "github.com", "/o/repo", FALSE, FALSE, FALSE) >>

KaggleCatalogue ==
    << KaggleSet,
       [DataGov EXCEPT !.www = TRUE],
       Url("https", TRUE, "kaggle.com", "/datasets/o/m", FALSE, FALSE, FALSE) >>

\* Two scenarios: one run over long provider lists (enough candidates for
\* the early stop), and MaxRuns runs over short lists that overlap.
Worlds ==
    { [firecrawl |-> FirecrawlCatalogue, kaggle |-> KaggleCatalogue, runs |-> 1],
      [firecrawl |-> <<DataGov>>, kaggle |-> <<[DataGov EXCEPT !.www = TRUE]>>,
       runs |-> MaxRuns] }

Prefixes(list) == {SubSeq(list, 1, n) : n \in 0..Len(list)}

Sources(urls, source_type) == [i \in 1..Len(urls) |-> Source(urls[i], source_type)]

\* Outcomes of the firecrawl_search task and of search_kaggle_datasets
FirecrawlOutcomes ==
    {[state |-> "failed", sources |-> <<>>]}
    \cup {[state |-> "done", sources |-> Sources(urls, "None")] :
            urls \in Prefixes(world.firecrawl)}

KaggleOutcomes ==
    {[state |-> "done", sources |-> Sources(urls, "Dataset")] :
        urls \in Prefixes(world.kaggle)}

\* What openrouter_service.score_relevance may return (openrouter.py:230-233)
Judgments ==
    { [relevance_score |-> 70, source_type |-> "Article"],
      [relevance_score |-> 71, source_type |-> "Dataset"],
      [relevance_score |-> 90, source_type |-> "API"] }

\* What openrouter_service.detect_schema may return (openrouter.py:273-276)
SchemaResults ==
    { [features_found |-> <<"price">>, quality_rating |-> Some(80)] }

\* A document of discovery_projects.sources: Source.model_dump()
StoredSource(source) ==
    [url |-> source.url, status |-> source.status,
     source_type |-> source.source_type, relevance_score |-> source.relevance_score,
     features_found |-> <<>>, quality_rating |-> None,
     credibility_tier |-> "None", last_crawled |-> None, retry_after |-> None]

NoProject ==
    [exists |-> FALSE, sources |-> <<>>, created_at |-> None,
     discovery_chain |-> None, selected_source |-> None]

\* ---- relevance_cache ----

CacheFindIgnoringExpiry(cache, normalized_url, t) ==
    {e \in cache : e.url = normalized_url}

CacheFindExpired(cache, normalized_url, t) ==
    {e \in cache : e.url = normalized_url /\ e.expires_at < t}

\* find_one({"url": normalized_url, "expires_at": {"$gt": now}}), lines 199-202
CacheFind(cache, normalized_url, t) ==
    {e \in cache : e.url = normalized_url /\ e.expires_at > t}

\* update_one({"url": normalized_url}, {"$set": {...}}, upsert=True), lines 220-231
CachePut(cache, normalized_url, judgment, target, t) ==
    {e \in cache : e.url # normalized_url}
    \cup {[url |-> normalized_url,
           relevance_score |-> judgment.relevance_score,
           source_type |-> judgment.source_type,
           expires_at |-> t + CacheTtlHours,
           scored_for |-> target,
           replaced |-> \E e \in cache : e.url = normalized_url]}

\* ---- discovery_projects ----

RECURSIVE FirstIndexFrom(_, _, _)
FirstIndexFrom(sources, url, i) ==
    IF i > Len(sources) THEN 0
    ELSE IF sources[i].url = url THEN i
    ELSE FirstIndexFrom(sources, url, i + 1)

\* The array element the positional operator "sources.$" addresses for the
\* filter {"sources.url": url}: the first one with that url (0: none)
FirstIndex(sources, url) == FirstIndexFrom(sources, url, 1)

SetFields(document, fields) ==
    [f \in DOMAIN document |-> IF f \in DOMAIN fields THEN fields[f] ELSE document[f]]

UpdateSourceOverwrite(projects, pid, url, fields) ==
    LET i == FirstIndex(projects[pid].sources, url)
    IN  IF ~projects[pid].exists \/ i = 0 THEN projects
        ELSE [projects EXCEPT
                ![pid].sources[i] = SetFields(StoredSource(Source(url, "None")), fields)]

\* update_one({"project_id": pid, "sources.url": url}, {"$set": {"sources.$.f": v}})
UpdateSource(projects, pid, url, fields) ==
    LET i == FirstIndex(projects[pid].sources, url)
    IN  IF ~projects[pid].exists \/ i = 0 THEN projects
        ELSE [projects EXCEPT ![pid].sources[i] = SetFields(@, fields)]

RECURSIVE UpdateSources(_, _, _, _)
UpdateSources(projects, pid, urls, fields) ==
    IF urls = <<>> THEN projects
    ELSE UpdateSources(UpdateSource(projects, pid, Head(urls), fields),
                       pid, Tail(urls), fields)

\* The candidate of project pid that updates for url address
CandidateIn(projects, pid, url) ==
    projects[pid].sources[FirstIndex(projects[pid].sources, url)]

Candidate(pid, url) == CandidateIn(discovery_projects, pid, url)

\* ---- scoring helpers ----

ShouldStopLate(high_quality_sources) ==
    Len(high_quality_sources) > MIN_HIGH_QUALITY_SOURCES

\* lines 190-193: the early-stop test at the head of each iteration
ShouldStop(high_quality_sources) ==
    Len(high_quality_sources) >= MIN_HIGH_QUALITY_SOURCES

IsHighQualityInclusive(relevance_score) == relevance_score >= RelevanceThreshold

\* line 236
IsHighQuality(relevance_score) == relevance_score > RelevanceThreshold

\* line 237
StatusFor(relevance_score) ==
    IF IsHighQuality(relevance_score) THEN "validated" ELSE "rejected"

\* ---- selection helpers ----

RECURSIVE InsertByScoreBeforeEqual(_, _)
InsertByScoreBeforeEqual(sorted, x) ==
    IF sorted = <<>> THEN <<x>>
    ELSE IF Head(sorted).relevance_score > x.relevance_score
         THEN <<Head(sorted)>> \o InsertByScoreBeforeEqual(Tail(sorted), x)
         ELSE <<x>> \o sorted

\* Insert x behind every element whose score is not lower (stable order)
RECURSIVE InsertByScore(_, _)
InsertByScore(sorted, x) ==
    IF sorted = <<>> THEN <<x>>
    ELSE IF Head(sorted).relevance_score >= x.relevance_score
         THEN <<Head(sorted)>> \o InsertByScore(Tail(sorted), x)
         ELSE <<x>> \o sorted

RECURSIVE SortFrom(_, _)
SortFrom(list, sorted) ==
    IF list = <<>> THEN sorted
    ELSE SortFrom(Tail(list), InsertByScore(sorted, Head(list)))

\* line 280: sorted(high_quality_sources, key=relevance_score, reverse=True)
SortedSources(high_quality_sources) == SortFrom(high_quality_sources, <<>>)

UrlsOf(list) == [i \in 1..Len(list) |-> list[i].url]

\* lines 351-361: credibility tier from the url's host name
CredibilityTier(url) ==
    IF url.host \in {"data.gov", "stats.edu"} THEN "high"
    ELSE IF url.host \in {"github.com", "kaggle.com"} THEN "high"
    ELSE "medium"

\* firecrawl_task and kaggle_task are locals of discovery_crawl: outside of
\* it there is no task
NoTask == [state |-> "none", sources |-> <<>>]

IdleRun ==
    [pc |-> "idle", project_id |-> "None", prompt |-> "None", target |-> "None",
     sources |-> <<>>, base |-> 0, i |-> 0, high_quality_sources |-> <<>>,
     sorted_sources |-> <<>>, k |-> 0,
     cache_lookups |-> <<>>, score_calls |-> <<>>, scrape_calls |-> <<>>,
     scrape_result |-> None, firecrawl_task |-> NoTask, kaggle_task |-> NoTask]

PipelineInit ==
    /\ world \in Worlds
    /\ now = 0
    /\ relevance_cache = {}
    /\ discovery_projects = [p \in ProjectIds |-> NoProject]
    /\ run = IdleRun
    /\ runs_started = 0

(***************************************************************************)
(*                     The discovery pipeline: actions                     *)
(***************************************************************************)

\* `request.project_id or str(ObjectId())`: an existing project, or the next
\* unused id for a new one
StartableProjects ==
    LET existing == {p \in ProjectIds : discovery_projects[p].exists}
        unused == ProjectIds \ existing
    IN  existing \cup (IF unused = {} THEN {}
                       ELSE {CHOOSE p \in unused : \A q \in unused : p = q \/ p = "p1"})

\* The request's prompt; the first one is fixed, prompts being interchangeable
StartablePrompts == IF runs_started = 0 THEN {"house prices"} ELSE Prompts

UpsertProjectWithSet(projects, pid, t) ==
    [projects EXCEPT ![pid].exists = TRUE, ![pid].sources = <<>>,
                     ![pid].created_at = Some(t)]

\* api/discovery.py:62-72: update_one({"project_id": pid}, {"$setOnInsert":
\* {"project_id": pid, "sources": [], "created_at": now}}, upsert=True)
UpsertProject(projects, pid, t) ==
    IF projects[pid].exists THEN projects
    ELSE [projects EXCEPT ![pid] = [NoProject EXCEPT !.exists = TRUE,
                                                    !.created_at = Some(t)]]

\* start_discovery (api/discovery.py:48-83): upsert with $setOnInsert, then
\* the pipeline is scheduled as a background task.  Runs follow one another.
StartDiscovery ==
    /\ run.pc \in {"idle", "done", "raised"}
    /\ runs_started < world.runs
    /\ \E pid \in StartableProjects, prompt \in StartablePrompts :
         /\ discovery_projects' = UpsertProject(discovery_projects, pid, now)
         /\ run' = [IdleRun EXCEPT !.pc = "parse_intent", !.project_id = pid,
                                   !.prompt = prompt]
    /\ runs_started' = runs_started + 1
    /\ UNCHANGED <<world, now, relevance_cache>>
    /\ UNCHANGED otherThanPipeline

\* parse_intent (lines 47-73): the discovery chain is $set on the project
ParseIntent ==
    /\ run.pc = "parse_intent"
    /\ discovery_projects' =
         [discovery_projects EXCEPT
            ![run.project_id].exists = TRUE,
            ![run.project_id].discovery_chain =
                Some([original_prompt |-> run.prompt, discovery_date |-> now])]
    /\ run' = [run EXCEPT !.pc = "crawl", !.target = TargetOf(run.prompt)]
    /\ UNCHANGED <<world, now, relevance_cache, runs_started>>
    /\ UNCHANGED otherThanPipeline

\* openrouter_service.parse_intent raises (line 51); the run ends at line 44
ParseIntentRaises ==
    /\ run.pc = "parse_intent"
    /\ run' = [run EXCEPT !.pc = "raised"]
    /\ UNCHANGED <<world, now, relevance_cache, discovery_projects, runs_started>>
    /\ UNCHANGED otherThanPipeline

\* discovery_crawl, lines 116-141: both tasks are created and gathered
GatherStart ==
    /\ run.pc = "crawl"
    /\ run' = [run EXCEPT !.pc = "gather",
                          !.firecrawl_task = [state |-> "running", sources |-> <<>>],
                          !.kaggle_task = [state |-> "running", sources |-> <<>>]]
    /\ UNCHANGED <<world, now, relevance_cache, discovery_projects, runs_started>>
    /\ UNCHANGED otherThanPipeline

\* the firecrawl_search task ends (lines 123-133): with its list or an exception
FirecrawlTaskEnds ==
    /\ run.pc = "gather"
    /\ run.firecrawl_task.state = "running"
    /\ \E outcome \in FirecrawlOutcomes : run' = [run EXCEPT !.firecrawl_task = outcome]
    /\ UNCHANGED <<world, now, relevance_cache, discovery_projects, runs_started>>
    /\ UNCHANGED otherThanPipeline

\* the search_kaggle_datasets task ends (lines 76-111)
KaggleTaskEnds ==
    /\ run.pc = "gather"
    /\ run.kaggle_task.state = "running"
    /\ \E outcome \in KaggleOutcomes : run' = [run EXCEPT !.kaggle_task = outcome]
    /\ UNCHANGED <<world, now, relevance_cache, discovery_projects, runs_started>>
    /\ UNCHANGED otherThanPipeline

GatherReturnsOnFirst(fc, kg) == fc.state # "running" \/ kg.state # "running"

\* lines 139-141: asyncio.gather returns when both tasks have ended
GatherReturns(fc, kg) == fc.state # "running" /\ kg.state # "running"

\* discovery_crawl (lines 139-175) from the return of gather on: merge, then
\* $push of the merged sources when there are any; the function returns and
\* its tasks are gone
PipelineCrawl ==
    /\ run.pc = "gather"
    /\ GatherReturns(run.firecrawl_task, run.kaggle_task)
    /\ LET merged == MergeSources(TaskResults(run.firecrawl_task),
                                  TaskResults(run.kaggle_task))
           stored == discovery_projects[run.project_id].sources
       IN  /\ discovery_projects' =
                [discovery_projects EXCEPT
                   ![run.project_id].sources =
                       @ \o [i \in 1..Len(merged) |-> StoredSource(merged[i])]]
           /\ run' = [run EXCEPT !.pc = "score", !.sources = merged,
                                 !.base = Len(stored), !.i = 1,
                                 !.firecrawl_task = NoTask, !.kaggle_task = NoTask]
    /\ UNCHANGED <<world, now, relevance_cache, runs_started>>
    /\ UNCHANGED otherThanPipeline

JudgedFieldsWithoutScore(judgment) ==
    [source_type |-> judgment.source_type,
     status |-> StatusFor(judgment.relevance_score)]

\* lines 243-249: the $set document of the update that follows a judgment
JudgedFields(judgment) ==
    [relevance_score |-> Some(judgment.relevance_score),
     source_type |-> judgment.source_type,
     status |-> StatusFor(judgment.relevance_score)]

\* lines 235-258: persist score, type and status; track high-quality sources
Judged(url, judgment, from_cache) ==
    /\ discovery_projects' =
         UpdateSource(discovery_projects, run.project_id, url, JudgedFields(judgment))
    /\ run' = [run EXCEPT
                 !.i = @ + 1,
                 !.cache_lookups = Append(@, NormalizeUrl(url)),
                 !.score_calls = IF from_cache THEN @ ELSE Append(@, NormalizeUrl(url)),
                 !.high_quality_sources =
                     IF IsHighQuality(judgment.relevance_score)
                     THEN Append(@, [url |-> url,
                                     relevance_score |-> judgment.relevance_score,
                                     source_type |-> judgment.source_type])
                     ELSE @]

InScoringLoop ==
    /\ run.pc = "score"
    /\ ~ShouldStop(run.high_quality_sources)
    /\ run.i <= Len(run.sources)

\* one iteration with a cache hit (lines 189-207, 235-261)
ScoreFromCache ==
    /\ InScoringLoop
    /\ LET url == run.sources[run.i].url
           cached == CacheFind(relevance_cache, NormalizeUrl(url), now)
       IN  /\ cached # {}
           /\ \E entry \in cached :
                Judged(url, [relevance_score |-> entry.relevance_score,
                             source_type |-> entry.source_type], TRUE)
    /\ UNCHANGED <<world, now, relevance_cache, runs_started>>
    /\ UNCHANGED otherThanPipeline

\* one iteration that asks the scoring collaborator (lines 189-203, 208-261)
ScoreWithCollaborator ==
    /\ InScoringLoop
    /\ LET url == run.sources[run.i].url
           cached == CacheFind(relevance_cache, NormalizeUrl(url), now)
       IN  /\ cached = {}
           /\ \E judgment \in Judgments :
                /\ relevance_cache' = CachePut(relevance_cache, NormalizeUrl(url),
                                               judgment, run.target, now)
                /\ Judged(url, judgment, FALSE)
    /\ UNCHANGED <<world, now, runs_started>>
    /\ UNCHANGED otherThanPipeline

AfterScoringFailureRejects(projects, pid, url) ==
    UpdateSource(projects, pid, url,
                 [relevance_score |-> Some(0), status |-> "rejected"])

\* The project store after score_relevance raised at lines 210-215: the
\* exception leaves the loop before the updates of lines 220-250
AfterScoringFailure(projects, pid, url) == projects

\* score_relevance raises (openrouter.py:235-237): the exception leaves
\* score_relevance_batch and run_discovery_pipeline (lines 42-44)
ScoreCollaboratorRaises ==
    /\ InScoringLoop
    /\ LET url == run.sources[run.i].url
       IN  /\ CacheFind(relevance_cache, NormalizeUrl(url), now) = {}
           /\ discovery_projects' =
                 AfterScoringFailure(discovery_projects, run.project_id, url)
           /\ run' = [run EXCEPT !.pc = "raised",
                                 !.cache_lookups = Append(@, NormalizeUrl(url)),
                                 !.score_calls = Append(@, NormalizeUrl(url))]
    /\ UNCHANGED <<world, now, relevance_cache, runs_started>>
    /\ UNCHANGED otherThanPipeline

\* the loop ends: early stop (lines 190-193) or list exhausted; line 264
ScoreLoopEnds ==
    /\ run.pc = "score"
    /\ ShouldStop(run.high_quality_sources) \/ run.i > Len(run.sources)
    /\ run' = [run EXCEPT !.pc = "select"]
    /\ UNCHANGED <<world, now, relevance_cache, discovery_projects, runs_started>>
    /\ UNCHANGED otherThanPipeline

\* select_best_source up to the first scrape (lines 273-303)
SelectStart ==
    /\ run.pc = "select"
    /\ IF run.high_quality_sources = <<>>
       THEN /\ run' = [run EXCEPT !.pc = "done"]
            /\ UNCHANGED discovery_projects
       ELSE LET sorted_sources == SortedSources(run.high_quality_sources)
                best_source == sorted_sources[1]
                backup_sources == Tail(sorted_sources)
                marked == UpdateSources(discovery_projects, run.project_id,
                                        UrlsOf(backup_sources), [status |-> "backup"])
            IN  /\ discovery_projects' =
                     UpdateSource(marked, run.project_id, best_source.url,
                                  [status |-> "crawling"])
                /\ run' = [run EXCEPT !.pc = "scrape",
                                      !.sorted_sources = sorted_sources, !.k = 1]
    /\ UNCHANGED <<world, now, relevance_cache, runs_started>>
    /\ UNCHANGED otherThanPipeline

CurrentUrl == run.sorted_sources[run.k].url

Scraped(ok) == Append(run.scrape_calls, [url |-> CurrentUrl, success |-> ok])

\* FirecrawlScrapeResult of a successful scrape (firecrawl.py:113-119)
ScrapeSuccess == [success |-> TRUE, rate_limited |-> FALSE, retry_after |-> None]

\* FirecrawlScrapeResult of an unsuccessful scrape (firecrawl.py:120-155):
\* access denied (401, 403), rate limited or timed out (429, 504, 408), and
\* any other error
ScrapeFailures ==
    { [success |-> FALSE, rate_limited |-> TRUE, retry_after |-> None],
      [success |-> FALSE, rate_limited |-> TRUE, retry_after |-> Some(3600)],
      [success |-> FALSE, rate_limited |-> FALSE, retry_after |-> None] }

\* Where the cascade goes after a failed scrape of sorted_sources[k]
\* (lines 308-332): the next backup while one is left
CascadeAdvances(k, n) == k < n

AdvanceToBackupReordered(projects, pid, url, backup_url) ==
    UpdateSource(UpdateSource(projects, pid, backup_url, [status |-> "failed"]),
                 pid, backup_url, [status |-> "crawling"])

\* lines 312-323: the source in progress is marked failed, then the next
\* backup crawling
AdvanceToBackup(projects, pid, url, backup_url) ==
    UpdateSource(UpdateSource(projects, pid, url, [status |-> "failed"]),
                 pid, backup_url, [status |-> "crawling"])

\* firecrawl_service.scrape reports failure (lines 306-332)
ScrapeFails ==
    /\ run.pc = "scrape"
    /\ IF CascadeAdvances(run.k, Len(run.sorted_sources))
       THEN /\ discovery_projects' =
                 AdvanceToBackup(discovery_projects, run.project_id, CurrentUrl,
                                 run.sorted_sources[run.k + 1].url)
            /\ \E scrape_result \in ScrapeFailures :
                 run' = [run EXCEPT !.k = @ + 1, !.scrape_calls = Scraped(FALSE),
                                    !.scrape_result = scrape_result]
       ELSE /\ \E scrape_result \in ScrapeFailures :
                 run' = [run EXCEPT !.pc = "done", !.scrape_calls = Scraped(FALSE),
                                    !.scrape_result = scrape_result]
            /\ UNCHANGED discovery_projects
    /\ UNCHANGED <<world, now, relevance_cache, runs_started>>
    /\ UNCHANGED otherThanPipeline

\* the scrape succeeds but carries neither markdown nor content (lines 334-341)
ScrapeReturnsNoContent ==
    /\ run.pc = "scrape"
    /\ discovery_projects' =
         UpdateSource(discovery_projects, run.project_id, CurrentUrl,
                      [status |-> "failed"])
    /\ run' = [run EXCEPT !.pc = "done", !.scrape_calls = Scraped(TRUE),
                          !.scrape_result = ScrapeSuccess]
    /\ UNCHANGED <<world, now, relevance_cache, runs_started>>
    /\ UNCHANGED otherThanPipeline

\* lines 382-400: the project-level copy of the selected source
SelectedSnapshot(url, schema_result) ==
    LET best_source == run.sorted_sources[1]
        backup_sources == Tail(run.sorted_sources)
        j == FirstIndex(backup_sources, url)
    IN  [url |-> url,
         relevance_score |->
             IF url = best_source.url
             THEN run.high_quality_sources[1].relevance_score
             ELSE IF j = 0 THEN 0 ELSE backup_sources[j].relevance_score,
         source_type |->
             IF url = best_source.url
             THEN run.high_quality_sources[1].source_type
             ELSE IF j = 0 THEN "Dataset" ELSE backup_sources[j].source_type,
         features_found |-> schema_result.features_found,
         quality_rating |-> schema_result.quality_rating,
         credibility_tier |-> CredibilityTier(url)]

\* the scrape succeeds with content and the schema is detected (lines 334-402)
ScrapeSucceeds ==
    /\ run.pc = "scrape"
    /\ \E schema_result \in SchemaResults :
         discovery_projects' =
             [UpdateSource(discovery_projects, run.project_id, CurrentUrl,
                           [status |-> "selected",
                            features_found |-> schema_result.features_found,
                            quality_rating |-> schema_result.quality_rating,
                            credibility_tier |-> CredibilityTier(CurrentUrl),
                            last_crawled |-> Some(now)])
              EXCEPT ![run.project_id].selected_source =
                         Some(SelectedSnapshot(CurrentUrl, schema_result))]
    /\ run' = [run EXCEPT !.pc = "done", !.scrape_calls = Scraped(TRUE),
                          !.scrape_result = ScrapeSuccess]
    /\ UNCHANGED <<world, now, relevance_cache, runs_started>>
    /\ UNCHANGED otherThanPipeline

\* the scrape succeeds with content but detect_schema raises
\* (openrouter.py:278-280); the exception leaves the run (lines 42-44)
DetectSchemaRaises ==
    /\ run.pc = "scrape"
    /\ run' = [run EXCEPT !.pc = "raised", !.scrape_calls = Scraped(TRUE),
                          !.scrape_result = ScrapeSuccess]
    /\ UNCHANGED <<world, now, relevance_cache, discovery_projects, runs_started>>
    /\ UNCHANGED otherThanPipeline

\* Time passes.  The clock is read in hours and a run lasts seconds to
\* minutes, so the clock moves between runs.
Tick ==
    /\ run.pc \in {"idle", "done", "raised"}
    /\ now < MaxTicks * TickHours
    /\ now' = now + TickHours
    /\ UNCHANGED <<world, relevance_cache, discovery_projects, run, runs_started>>
    /\ UNCHANGED otherThanPipeline

\* the TTL index on expires_at (db/mongodb.py:51) removes expired entries
ReapExpired ==
    /\ \E e \in relevance_cache : e.expires_at <= now
    /\ relevance_cache' = {e \in relevance_cache : e.expires_at > now}
    /\ UNCHANGED <<world, now, discovery_projects, run, runs_started>>
    /\ UNCHANGED otherThanPipeline

PipelineNext ==
    \/ StartDiscovery
    \/ ParseIntent
    \/ ParseIntentRaises
    \/ GatherStart
    \/ FirecrawlTaskEnds
    \/ KaggleTaskEnds
    \/ PipelineCrawl
    \/ ScoreFromCache
    \/ ScoreWithCollaborator
    \/ ScoreCollaboratorRaises
    \/ ScoreLoopEnds
    \/ SelectStart
    \/ ScrapeFails
    \/ ScrapeReturnsNoContent
    \/ ScrapeSucceeds
    \/ DetectSchemaRaises
    \/ Tick
    \/ ReapExpired

(***************************************************************************)
(*                 Properties of the discovery pipeline                    *)
(***************************************************************************)

Identity(source) == NormalizeUrl(source.url)

\* The first position of list whose source has the identity of list[n]
FirstOfIdentity(list, n) ==
    CHOOSE m \in 1..n :
        /\ Identity(list[m]) = Identity(list[n])
        /\ \A l \in 1..(m - 1) : Identity(list[l]) # Identity(list[n])

\* C1: the list discovery_crawl returns holds no two candidates of the same
\* normalized identity, and for every identity found by a provider it holds
\* exactly the first candidate of "Firecrawl results, then Kaggle results".
C1_MergeKeepsFirstPerIdentity ==
    c_pc = "done" =>
        LET found == firecrawl_results \o kaggle_results
        IN  /\ \A i, j \in 1..Len(all_sources) :
                  Identity(all_sources[i]) = Identity(all_sources[j]) => i = j
            /\ \A n \in 1..Len(found) :
                  \E i \in 1..Len(all_sources) :
                      all_sources[i] = found[FirstOfIdentity(found, n)]
            /\ \A i \in 1..Len(all_sources) :
                  \E n \in 1..Len(found) :
                      all_sources[i] = found[FirstOfIdentity(found, n)]

\* C1 witness: both providers found the same identity under different raw
\* urls, and the merged list is shorter than the two lists together.
C1_Witness ==
    /\ c_pc = "done"
    /\ Len(all_sources) < Len(firecrawl_results) + Len(kaggle_results)
    /\ \E i \in 1..Len(firecrawl_results), j \in 1..Len(kaggle_results) :
          /\ Identity(firecrawl_results[i]) = Identity(kaggle_results[j])
          /\ firecrawl_results[i].url # kaggle_results[j].url

LiveEntries(identity) ==
    {e \in relevance_cache : e.url = identity /\ e.expires_at > now}

\* The step looks one candidate up in the cache
LookupStep ==
    /\ run.pc = "score"
    /\ Len(run'.cache_lookups) = Len(run.cache_lookups) + 1

\* C2: when the cache holds a live entry for the identity of the candidate
\* being looked up, the step does not invoke the scoring collaborator and
\* persists the entry's score and type on the project's candidate of that url.
C2_CacheHitSkipsScoring ==
    [][ LET url == run.sources[run.i].url
        IN  (LookupStep /\ LiveEntries(NormalizeUrl(url)) # {}) =>
                /\ run'.score_calls = run.score_calls
                /\ UNCHANGED relevance_cache
                /\ \E e \in LiveEntries(NormalizeUrl(url)) :
                      LET c == CandidateIn(discovery_projects', run.project_id, url)
                      IN  /\ c.relevance_score = Some(e.relevance_score)
                          /\ c.source_type = e.source_type ]_vars

\* C2 witness: a run on the second project judged its first candidate
\* without a scoring call, from an entry a run on the first project wrote.
C2_Witness ==
    /\ run.project_id = "p2"
    /\ run.pc = "score"
    /\ run.i = 2
    /\ run.score_calls = <<>>
    /\ Candidate("p2", run.sources[1].url).relevance_score # None
    /\ \E e \in relevance_cache : e.url = NormalizeUrl(run.sources[1].url)

\* The document the run's crawl stored for the j-th source of its list
OwnDocument(j) == discovery_projects[run.project_id].sources[run.base + j]

ScoringOver == run.pc \in {"select", "scrape", "done"}

\* C3: the scoring loop never goes past the quality target; once the target
\* is reached, the candidate that reached it is the last one looked up, and
\* every later candidate of the list is stored pending, unscored, and was
\* neither looked up nor scored; a loop that ended below the target has
\* processed the whole list.
C3_EarlyStop ==
    LET hq == run.high_quality_sources
    IN  /\ Len(hq) <= MIN_HIGH_QUALITY_SOURCES
        /\ Len(run.score_calls) <= Len(run.cache_lookups)
        /\ Len(hq) = MIN_HIGH_QUALITY_SOURCES =>
              LET n == Len(run.cache_lookups)
              IN  /\ run.sources[n].url = hq[MIN_HIGH_QUALITY_SOURCES].url
                  /\ run.i = n + 1
                  /\ \A j \in (n + 1)..Len(run.sources) :
                        /\ OwnDocument(j).url = run.sources[j].url
                        /\ OwnDocument(j).status = "pending_validation"
                        /\ OwnDocument(j).relevance_score = None
                        /\ \A m \in 1..n :
                              run.cache_lookups[m] # NormalizeUrl(run.sources[j].url)
        /\ (ScoringOver /\ Len(hq) < MIN_HIGH_QUALITY_SOURCES) =>
              /\ Len(run.cache_lookups) = Len(run.sources)
              /\ run.i = Len(run.sources) + 1

\* C3 witness: the loop has ended at the target with a candidate left over.
C3_Witness ==
    /\ run.pc = "select"
    /\ Len(run.high_quality_sources) = MIN_HIGH_QUALITY_SOURCES
    /\ run.i <= Len(run.sources)
    /\ OwnDocument(run.i).status = "pending_validation"

\* C4: when the candidate of rank k is the first whose scrape succeeds, the
\* scrapes made are exactly those of ranks 1..k in rank order, the
\* candidates of ranks below k are failed, and those of ranks above k were
\* not scraped and are still backup.
C4_CascadeStopsAtFirstSuccess ==
    LET calls == run.scrape_calls
        sorted == run.sorted_sources
    IN  \A k \in 1..Len(calls) :
            calls[k].success =>
                /\ k = Len(calls)
                /\ run.pc \in {"done", "raised"}
                /\ \A a, b \in 1..Len(sorted) :
                      a < b => sorted[a].relevance_score >= sorted[b].relevance_score
                /\ \A j \in 1..k : calls[j].url = sorted[j].url
                /\ \A j \in 1..(k - 1) :
                      /\ ~calls[j].success
                      /\ Candidate(run.project_id, sorted[j].url).status = "failed"
                /\ \A j \in (k + 1)..Len(sorted) :
                      Candidate(run.project_id, sorted[j].url).status = "backup"

\* C4 witness: the second of at least three ranked candidates succeeded.
C4_Witness ==
    /\ run.pc = "done"
    /\ Len(run.sorted_sources) >= 3
    /\ Len(run.scrape_calls) = 2
    /\ run.scrape_calls[2].success
    /\ Candidate(run.project_id, run.sorted_sources[2].url).status = "selected"

\* C5 (as claimed): when no scrape of the cascade succeeded, the cascade
\* ends with no candidate of the project in status crawling and every
\* attempted candidate failed.
C5_ExhaustionLeavesNoneCrawling ==
    ( /\ run.pc = "done"
      /\ run.scrape_calls # <<>>
      /\ \A k \in 1..Len(run.scrape_calls) : ~run.scrape_calls[k].success )
    => /\ \A i \in 1..Len(discovery_projects[run.project_id].sources) :
             discovery_projects[run.project_id].sources[i].status # "crawling"
       /\ \A k \in 1..Len(run.scrape_calls) :
             Candidate(run.project_id, run.scrape_calls[k].url).status = "failed"

\* merged holds one source per identity of found: the first of that identity
KeepsFirstPerIdentity(merged, found) ==
    /\ \A i, j \in 1..Len(merged) :
          Identity(merged[i]) = Identity(merged[j]) => i = j
    /\ \A n \in 1..Len(found) :
          \E i \in 1..Len(merged) : merged[i] = found[FirstOfIdentity(found, n)]
    /\ \A i \in 1..Len(merged) :
          \E n \in 1..Len(found) : merged[i] = found[FirstOfIdentity(found, n)]

\* C11: when one of the two search tasks ends with an exception,
\* discovery_crawl still returns; the failed task counts as an empty list,
\* whatever it had gathered, and the merged list is the deduplicated list of
\* the other task.
C11_FailedProviderCountsAsEmpty ==
    c_pc = "done" =>
        /\ firecrawl_task.state = "failed" =>
              /\ firecrawl_results = <<>>
              /\ KeepsFirstPerIdentity(all_sources, kaggle_task.sources)
        /\ kaggle_task.state = "failed" =>
              /\ kaggle_results = <<>>
              /\ KeepsFirstPerIdentity(all_sources, firecrawl_task.sources)

\* C11 witness: the Firecrawl task raised after gathering results, and the
\* merged list is the Kaggle list with a duplicate dropped.
C11_Witness ==
    /\ c_pc = "done"
    /\ firecrawl_task.state = "failed"
    /\ firecrawl_task.sources # <<>>
    /\ all_sources # <<>>
    /\ Len(all_sources) < Len(kaggle_task.sources)

\* The step is a scoring call that raised: the loop position stays on the
\* candidate and the run leaves the scoring loop with the exception
ScoringFailureStep ==
    /\ run.pc = "score"
    /\ run'.pc = "raised"
    /\ Len(run'.score_calls) = Len(run.score_calls) + 1

\* C12: a scoring call that raises writes nothing: the document the run
\* stored for the candidate is still pending without a score, no status of
\* the project changes (none becomes rejected), and the cache gets no entry,
\* so no live entry exists for the candidate; and whenever a candidate is
\* looked up without a live entry, the scoring collaborator is called for it.
C12_ScoringFailureLeavesPending ==
    [][ /\ ScoringFailureStep =>
              /\ discovery_projects' = discovery_projects
              /\ relevance_cache' = relevance_cache
              /\ OwnDocument(run.i).url = run.sources[run.i].url
              /\ OwnDocument(run.i).status = "pending_validation"
              /\ OwnDocument(run.i).relevance_score = None
              /\ LiveEntries(NormalizeUrl(run.sources[run.i].url)) = {}
        /\ (LookupStep /\ LiveEntries(NormalizeUrl(run.sources[run.i].url)) = {}) =>
              run'.score_calls =
                  Append(run.score_calls, NormalizeUrl(run.sources[run.i].url)) ]_vars

\* The run ended with an exception of the scoring collaborator
ScoringRaised ==
    /\ run.pc = "raised"
    /\ run.score_calls # <<>>
    /\ Len(run.cache_lookups) = run.i

\* C12 witness: the scoring of a run's second candidate raised after the
\* first was judged; the second is stored pending and is not in the cache.
C12_Witness ==
    /\ ScoringRaised
    /\ run.i = 2
    /\ OwnDocument(1).status \in {"validated", "rejected"}
    /\ OwnDocument(2).status = "pending_validation"
    /\ \A e \in relevance_cache : e.url # NormalizeUrl(run.sources[2].url)

\* C13 (as claimed): a scoring call that raises does not end the run: a run
\* that called the scoring collaborator and has ended went through its list
\* to the end or to the early stop, and an exception ended it only once
\* select_best_source was scraping.
C13_ScoringFailureIsLocal ==
    (run.pc \in {"done", "raised"} /\ run.score_calls # <<>>) =>
        /\ \/ Len(run.high_quality_sources) >= MIN_HIGH_QUALITY_SOURCES
           \/ run.i > Len(run.sources)
        /\ run.pc = "raised" => run.scrape_calls # <<>>

\* The step judges the candidate at the loop position and moves on
JudgedStep ==
    /\ run.pc = "score"
    /\ run'.pc = "score"
    /\ run'.i = run.i + 1

\* C14: a step that judges a candidate with score s (the score the cache
\* holds for its identity after the step) stores s and the type on the
\* project's candidate of that url together with status validated when
\* s > 70 and rejected otherwise, and appends the candidate to the
\* high-quality list exactly when s > 70.
C14_ThresholdDecidesStatus ==
    [][ JudgedStep =>
          LET url == run.sources[run.i].url
              c == CandidateIn(discovery_projects', run.project_id, url)
          IN  \E e \in relevance_cache' :
                  /\ e.url = NormalizeUrl(url)
                  /\ c.relevance_score = Some(e.relevance_score)
                  /\ c.source_type = e.source_type
                  /\ c.status = IF e.relevance_score > RelevanceThreshold
                                THEN "validated" ELSE "rejected"
                  /\ run'.high_quality_sources =
                        IF e.relevance_score > RelevanceThreshold
                        THEN Append(run.high_quality_sources,
                                    [url |-> url,
                                     relevance_score |-> e.relevance_score,
                                     source_type |-> e.source_type])
                        ELSE run.high_quality_sources ]_vars

\* C14 witness: of the first two candidates of a run one was judged 70 and
\* rejected, the other 71 and validated, and one is in the high-quality list.
C14_Witness ==
    /\ run.pc = "score"
    /\ run.i = 3
    /\ Len(run.high_quality_sources) = 1
    /\ \E a, b \in 1..2 :
          /\ OwnDocument(a).relevance_score = Some(RelevanceThreshold)
          /\ OwnDocument(a).status = "rejected"
          /\ OwnDocument(b).relevance_score = Some(RelevanceThreshold + 1)
          /\ OwnDocument(b).status = "validated"
          /\ run.high_quality_sources[1].url = OwnDocument(b).url

\* The run has ended without enriching a candidate: an exception ended it,
\* or no candidate was scraped, or the last scrape failed
RunFailed ==
    \/ run.pc = "raised"
    \/ /\ run.pc = "done"
       /\ \/ run.scrape_calls = <<>>
          \/ ~run.scrape_calls[Len(run.scrape_calls)].success

\* C15 (as claimed): when a run on a project has failed, the candidate the
\* project records as its selected source (selected by an earlier run, since
\* a failed run selects none) still has status selected.
C15_FailedRunKeepsSelected ==
    RunFailed =>
        LET project == discovery_projects[run.project_id]
        IN  project.selected_source # None =>
                Candidate(run.project_id, project.selected_source[1].url).status
                    = "selected"

\* C16 (as claimed): no project ever stores two candidates whose urls
\* normalize to the same identity.
C16_UniqueIdentityPerProject ==
    \A p \in ProjectIds :
        \A i, j \in 1..Len(discovery_projects[p].sources) :
            Identity(discovery_projects[p].sources[i])
                = Identity(discovery_projects[p].sources[j]) => i = j

StoredSources(p) ==
    {discovery_projects[p].sources[i] : i \in 1..Len(discovery_projects[p].sources)}

\* C17: in every state, every stored candidate of every project has a
\* relevance score exactly when its status is not pending_validation.
C17_ScoreIffNotPending ==
    \A p \in ProjectIds :
        \A c \in StoredSources(p) :
            (c.relevance_score # None) <=> (c.status # "pending_validation")

\* C17 witness: one project holds a pending candidate without a score next
\* to scored candidates that are failed, selected and backup.
C17_Witness ==
    \E p \in ProjectIds :
        /\ \E c \in StoredSources(p) :
              c.status = "pending_validation" /\ c.relevance_score = None
        /\ \A status \in {"failed", "selected", "backup"} :
              \E c \in StoredSources(p) :
                  c.status = status /\ c.relevance_score # None

DefinedTransitions ==
    { <<"pending_validation", "validated">>, <<"pending_validation", "rejected">>,
      <<"validated", "crawling">>, <<"validated", "backup">>,
      <<"backup", "crawling">>,
      <<"crawling", "selected">>, <<"crawling", "failed">>,
      <<"crawling", "rate_limited">> }

\* C18 (as claimed): every step that changes the status of a stored
\* candidate changes it along one of the defined transitions.
C18_OnlyDefinedTransitions ==
    [][ \A p \in ProjectIds :
          \A i \in 1..Len(discovery_projects[p].sources) :
              LET before == discovery_projects[p].sources[i].status
                  after == discovery_projects'[p].sources[i].status
              IN  before # after => <<before, after>> \in DefinedTransitions ]_vars

\* The error the project document carries: the value of its error key
ErrorOf(project) ==
    IF "error" \in DOMAIN project THEN project.error ELSE None

\* The run was ended by an exception of the intent parser
IntentParsingFailed == run.pc = "raised" /\ run.target = "None"

\* The run's crawl returned no candidate and the run has ended
FoundNoCandidates ==
    /\ run.pc \in {"done", "raised"}
    /\ run.target # "None"
    /\ run.sources = <<>>

\* C19 (as claimed): a run whose intent parsing failed, or whose crawl found
\* no candidate, has scored and scraped nothing and has left an error on the
\* project document.
C19_FatalErrorIsWritten ==
    (IntentParsingFailed \/ FoundNoCandidates) =>
        /\ run.cache_lookups = <<>>
        /\ run.score_calls = <<>>
        /\ run.scrape_calls = <<>>
        /\ ErrorOf(discovery_projects[run.project_id]) # None

\* The position in the high-quality list of the candidate with this url
HqIndex(url) ==
    CHOOSE n \in 1..Len(run.high_quality_sources) :
        run.high_quality_sources[n].url = url

\* Candidate m of the high-quality list ranks before candidate n: a higher
\* score, or the same score and found earlier
RankedBefore(m, n) ==
    LET hq == run.high_quality_sources
    IN  \/ hq[m].relevance_score > hq[n].relevance_score
        \/ hq[m].relevance_score = hq[n].relevance_score /\ m < n

\* C20: every scrape goes to a candidate of the high-quality list, and the
\* candidates scraped before it are exactly those that rank before it by
\* descending score with ties in the order of the list.
C20_StableDescendingOrder ==
    \A b \in 1..Len(run.scrape_calls) :
        /\ \E n \in 1..Len(run.high_quality_sources) :
              run.high_quality_sources[n].url = run.scrape_calls[b].url
        /\ {HqIndex(run.scrape_calls[a].url) : a \in 1..(b - 1)}
             = {m \in 1..Len(run.high_quality_sources) :
                    RankedBefore(m, HqIndex(run.scrape_calls[b].url))}

\* C20 witness: of three candidates found in the order 71, 71, 90 the third
\* was scraped first, then the first, then the second.
C20_Witness ==
    /\ Len(run.high_quality_sources) >= 3
    /\ run.high_quality_sources[1].relevance_score = 71
    /\ run.high_quality_sources[2].relevance_score = 71
    /\ run.high_quality_sources[3].relevance_score = 90
    /\ Len(run.scrape_calls) >= 3
    /\ run.scrape_calls[1].url = run.high_quality_sources[3].url
    /\ run.scrape_calls[2].url = run.high_quality_sources[1].url
    /\ run.scrape_calls[3].url = run.high_quality_sources[2].url

\* The entries stored for an identity whose expiry is not later than now
ExpiredEntries(identity) ==
    {e \in relevance_cache : e.url = identity /\ e.expires_at <= now}

\* C21: a lookup that finds only an expired entry stored for the candidate's
\* identity calls the scoring collaborator; when the call returns, the cache
\* holds exactly one entry for the identity, the one just written: it
\* expires 24 hours after now and holds the score and type stored on the
\* candidate.  No step leaves two entries for one identity.
C21_ExpiredEntryIsAbsent ==
    [][ /\ LET url == run.sources[run.i].url
               identity == NormalizeUrl(url)
           IN  (LookupStep /\ ExpiredEntries(identity) # {}) =>
                 /\ run'.score_calls = Append(run.score_calls, identity)
                 /\ JudgedStep =>
                       \E e \in relevance_cache' :
                           /\ {d \in relevance_cache' : d.url = identity} = {e}
                           /\ e \notin relevance_cache
                           /\ e.expires_at = now + 24
                           /\ CandidateIn(discovery_projects', run.project_id, url)
                                  .relevance_score = Some(e.relevance_score)
                           /\ CandidateIn(discovery_projects', run.project_id, url)
                                  .source_type = e.source_type
        /\ \A d, e \in relevance_cache' : d.url = e.url => d = e ]_vars

\* C21 witness: a run's first candidate was scored by the collaborator
\* although the cache stored an (expired) entry for it, which the new entry
\* has replaced.
C21_Witness ==
    /\ run.pc = "score"
    /\ run.i = 2
    /\ now > 0
    /\ run.score_calls = <<NormalizeUrl(run.sources[1].url)>>
    /\ \E e \in relevance_cache :
          /\ e.url = NormalizeUrl(run.sources[1].url)
          /\ e.replaced
          /\ e.expires_at = now + 24

\* The run has scraped, has ended normally and its last scraped candidate
\* is not selected
CascadeEndedWithoutSelection ==
    /\ run.pc = "done"
    /\ run.scrape_calls # <<>>
    /\ Candidate(run.project_id,
                 run.scrape_calls[Len(run.scrape_calls)].url).status # "selected"

\* C22 (as claimed): a cascade that has ended without a selection has
\* scraped every ranked candidate and has left each of them failed.
C22_FailedAttemptAdvances ==
    CascadeEndedWithoutSelection =>
        /\ Len(run.scrape_calls) = Len(run.sorted_sources)
        /\ \A k \in 1..Len(run.scrape_calls) :
              Candidate(run.project_id, run.scrape_calls[k].url).status = "failed"

\* C23 (as claimed): no exception raised while a candidate is enriched ends
\* the run: a run that an exception ended had not scraped.
C23_EnrichmentExceptionIsLocal ==
    run.pc = "raised" => run.scrape_calls = <<>>

\* C24 (as claimed): a candidate whose scrape has just reported rate
\* limiting is in status rate_limited, and every stored candidate in status
\* rate_limited carries a retry_after.
C24_RateLimitedIsEntered ==
    /\ (run.scrape_calls # <<>> /\ run.scrape_result.rate_limited) =>
          Candidate(run.project_id,
                    run.scrape_calls[Len(run.scrape_calls)].url).status = "rate_limited"
    /\ \A p \in ProjectIds :
          \A c \in StoredSources(p) :
              c.status = "rate_limited" => c.retry_after # None

\* The run has ended by selecting the candidate it scraped last
RunSelected ==
    /\ run.pc = "done"
    /\ run.scrape_calls # <<>>
    /\ run.scrape_result.success
    /\ Candidate(run.project_id,
                 run.scrape_calls[Len(run.scrape_calls)].url).status = "selected"

\* C25 (as claimed): after a run that selected a candidate, the project's
\* selected_source has the url of that candidate and the score, type,
\* features, quality rating and credibility tier stored on it.
C25_SnapshotCopiesSelected ==
    RunSelected =>
        LET c == Candidate(run.project_id,
                           run.scrape_calls[Len(run.scrape_calls)].url)
            project == discovery_projects[run.project_id]
        IN  /\ project.selected_source # None
            /\ project.selected_source[1].url = c.url
            /\ Some(project.selected_source[1].relevance_score) = c.relevance_score
            /\ project.selected_source[1].source_type = c.source_type
            /\ project.selected_source[1].features_found = c.features_found
            /\ project.selected_source[1].quality_rating = c.quality_rating
            /\ project.selected_source[1].credibility_tier = c.credibility_tier

\* C26 (as claimed): once a project has a discovery chain, no step changes
\* the original prompt it records.
C26_DiscoveryChainWriteOnce ==
    [][ \A p \in ProjectIds :
          discovery_projects[p].discovery_chain # None =>
              /\ discovery_projects'[p].discovery_chain # None
              /\ discovery_projects'[p].discovery_chain[1].original_prompt
                    = discovery_projects[p].discovery_chain[1].original_prompt ]_vars

\* The step is a start_discovery request
StartStep == run.pc # "parse_intent" /\ run'.pc = "parse_intent"

\* C27: a start_discovery request for a project id that already has a
\* document leaves that document as it was (candidate list and creation
\* time included) and creates or changes no other project document.
C27_StartIsIdempotentUpsert ==
    [][ (StartStep /\ discovery_projects[run'.project_id].exists) =>
          /\ discovery_projects'[run'.project_id].sources
                = discovery_projects[run'.project_id].sources
          /\ discovery_projects'[run'.project_id].created_at
                = discovery_projects[run'.project_id].created_at
          /\ discovery_projects' = discovery_projects ]_vars

\* C27 witness: a second request for a project created at an earlier time
\* that already holds candidates; both are as they were.
C27_Witness ==
    /\ run.pc = "parse_intent"
    /\ runs_started >= 2
    /\ now > 0
    /\ discovery_projects[run.project_id].created_at = Some(0)
    /\ discovery_projects[run.project_id].sources # <<>>

\* The urls the updates of the step name
NamedUrls ==
    IF run.pc = "score" THEN {run.sources[run.i].url}
    ELSE IF run.pc = "select"
         THEN {run'.sorted_sources[k].url : k \in 1..Len(run'.sorted_sources)}
    ELSE IF run.pc = "scrape"
         THEN {run.sorted_sources[k].url :
                 k \in {run.k, run.k + 1} \cap (1..Len(run.sorted_sources))}
    ELSE {}

\* The fields the update that produced the document names
NamedFields(after) ==
    IF run.pc = "score" THEN {"relevance_score", "source_type", "status"}
    ELSE IF run.pc = "scrape" /\ after.status = "selected"
         THEN {"status", "features_found", "quality_rating", "credibility_tier",
               "last_crawled"}
    ELSE {"status"}

FirstPositions(list) == {n \in 1..Len(list) : FirstOfIdentity(list, n) = n}

\* C29: whichever provider task ends first, the list discovery_crawl
\* returns is determined by the lists the two tasks ended with (an
\* exception counting as the empty list): it holds, in their order, the
\* first source of every identity of "Firecrawl's list, then Kaggle's list".
C29_MergeIgnoresCompletionOrder ==
    c_pc = "done" =>
        LET found == TaskResults(firecrawl_task) \o TaskResults(kaggle_task)
            firsts == FirstPositions(found)
        IN  /\ {firecrawl_task.order, kaggle_task.order} = {1, 2}
            /\ Len(all_sources) = Cardinality(firsts)
            /\ \A n \in firsts :
                  all_sources[Cardinality({m \in firsts : m <= n})] = found[n]

\* C29 witness: the Kaggle task ended before the Firecrawl task, both
\* returned candidates, and the merged list starts with Firecrawl's first
\* and also holds a candidate only Kaggle found.
C29_Witness ==
    /\ c_pc = "done"
    /\ kaggle_task.order = 1
    /\ firecrawl_task.state = "done"
    /\ firecrawl_task.sources # <<>>
    /\ kaggle_task.sources # <<>>
    /\ all_sources[1] = firecrawl_task.sources[1]
    /\ Identity(kaggle_task.sources[1]) # Identity(firecrawl_task.sources[1])
    /\ \E i \in 2..Len(all_sources) : all_sources[i] = kaggle_task.sources[1]

\* Both provider tasks of the run have ended, with a list or an exception
BothTasksEnded ==
    /\ run.firecrawl_task.state \in {"done", "failed"}
    /\ run.kaggle_task.state \in {"done", "failed"}

\* The step merges the provider lists or appends candidates to a project
MergeStep ==
    \/ run.pc = "gather" /\ run'.pc # "gather"
    \/ run'.sources # <<>> /\ run'.sources # run.sources
    \/ \E p \in ProjectIds :
          Len(discovery_projects'[p].sources) > Len(discovery_projects[p].sources)

\* The step looks a candidate up in the cache or calls the scoring collaborator
ScoringStep ==
    \/ Len(run'.cache_lookups) > Len(run.cache_lookups)
    \/ Len(run'.score_calls) > Len(run.score_calls)

\* The step makes a scrape attempt
ScrapeStep == Len(run'.scrape_calls) > Len(run.scrape_calls)

\* The scoring loop of the run is over: every candidate was looked up, or
\* enough high-quality candidates were found
ScoringLoopEnded ==
    \/ Len(run.cache_lookups) = Len(run.sources)
    \/ Len(run.high_quality_sources) >= MIN_HIGH_QUALITY_SOURCES

\* C30: a step that merges or persists the candidates starts from a state
\* where both provider tasks have ended; a cache lookup or scoring call is
\* made in the scoring loop, after discovery_crawl has returned, with no
\* provider task running and no scrape attempt made in the run so far; a
\* scrape attempt is made after the scoring loop has ended, with no provider
\* task running, and in a step that makes no lookup and no scoring call.
C30_StagesAreOrdered ==
    [][ /\ MergeStep => BothTasksEnded
        /\ ScoringStep =>
              /\ run.pc = "score"
              /\ run.firecrawl_task.state # "running"
              /\ run.kaggle_task.state # "running"
              /\ run.scrape_calls = <<>>
              /\ ~ScrapeStep
        /\ ScrapeStep =>
              /\ run.pc = "scrape"
              /\ run.firecrawl_task.state # "running"
              /\ run.kaggle_task.state # "running"
              /\ ScoringLoopEnded
              /\ ~ScoringStep ]_vars

\* C30 witness: a run whose two providers both returned candidates has
\* looked several of them up and then made several scrape attempts.
C30_Witness ==
    /\ run.pc = "done"
    /\ \E i, j \in 1..Len(run.sources) :
          /\ run.sources[i].source_type = "None"
          /\ run.sources[j].source_type = "Dataset"
    /\ Len(run.cache_lookups) >= 2
    /\ Len(run.scrape_calls) >= 2

\* C33 (as claimed): a score taken from the cache for a candidate of a run
\* was computed by the scoring collaborator for the target of that run.
C33_CachedScoreIsForOwnTarget ==
    [][ (LookupStep /\ run'.score_calls = run.score_calls) =>
            \A e \in LiveEntries(NormalizeUrl(run.sources[run.i].url)) :
                e.scored_for = run.target ]_vars

\* The positions of the project's stored candidates that have the status
WithStatus(p, status) ==
    {i \in 1..Len(discovery_projects[p].sources) :
        discovery_projects[p].sources[i].status = status}

\* C34 (as claimed): no project holds two candidates with status selected.
C34_AtMostOneSelected ==
    \A p \in ProjectIds : Cardinality(WithStatus(p, "selected")) <= 1

\* C35 (as claimed): while a run is under way, at most one stored candidate
\* of its project has status crawling.
C35_AtMostOneCrawling ==
    run.pc \notin {"idle", "done", "raised"} =>
        Cardinality(WithStatus(run.project_id, "crawling")) <= 1

(***************************************************************************)
(*                              Trainer.train                              *)
(***************************************************************************)

\* Bounds of the training model.
MaxFallbacks == 2
MaxRetriesMax == 2

\* Trainer.__init__(max_retries=2)
DefaultMaxRetries == 2

Refs == {"owner/a", "owner/b"}

\* Error texts a failed _run_modal_training can carry (stderr tail,
\* "Training timeout", str(exception)).
ErrNoClassFolders == "RuntimeError: No class folders found in dataset. Check dataset structure."
ErrStructureUpper == "ValueError: Unsupported Dataset Structure"
ErrLowerNoClass == "warning: no class folders in cache"
ErrTimeout == "Training timeout"

Errors == {ErrNoClassFolders, ErrStructureUpper, ErrLowerNoClass, ErrTimeout}

\* `"No class folders" in str(error)` : case-sensitive substring test.
ContainsNoClassFolders(text) == text \in {ErrNoClassFolders}

\* `"dataset structure" in str(error).lower()` : substring test after lower().
ContainsDatasetStructureLowered(text) == text \in {ErrNoClassFolders, ErrStructureUpper}

IsStructural(error) ==
    ContainsNoClassFolders(error) \/ ContainsDatasetStructureLowered(error)

RECURSIVE FilterNotPrimary(_, _)
FilterNotPrimary(fbs, primary) ==
    IF fbs = <<>> THEN <<>>
    ELSE IF Head(fbs) # primary
         THEN <<Head(fbs)>> \o FilterNotPrimary(Tail(fbs), primary)
         ELSE FilterNotPrimary(Tail(fbs), primary)

DatasetsToTryKeepingAll(primary, fbs) == <<primary>> \o fbs

\* lines 75-79: primary first, then every fallback whose ref differs from it
DatasetsToTry(primary, fbs) == <<primary>> \o FilterNotPrimary(fbs, primary)

NoError == [kind |-> "none", datasets |-> 0, text |-> "None"]

\* line 147: f"Training failed on all {n} datasets. Last error: {last_error}"
AllFailedError(n, last) ==
    [kind |-> "all_failed", datasets |-> n, text |-> last]

\* lines 138-148
FailureResult(n, last) ==
    [success |-> FALSE, model_path |-> "None", error |-> AllFailedError(n, last)]

LastErrorKeepFirst(previous, error) ==
    IF previous = "None" THEN error ELSE previous

\* line 126: last_error = result.error
LastErrorAfter(previous, error) == error

\* Position of the loops after a failed attempt (lines 126-136 and the loop
\* headers at 90 and 93): break on a structural error, else retry while
\* attempt < max_retries, else the next dataset; "returned" when exhausted.
AfterFailureNoBreak(idx, att, error, retries, n) ==
    IF att < retries
    THEN [pc |-> "attempt", ds_idx |-> idx, attempt |-> att + 1]
    ELSE IF idx < n
         THEN [pc |-> "attempt", ds_idx |-> idx + 1, attempt |-> 1]
         ELSE [pc |-> "returned", ds_idx |-> idx, attempt |-> att]

AfterFailureOneShort(idx, att, error, retries, n) ==
    IF ~IsStructural(error) /\ att + 1 < retries
    THEN [pc |-> "attempt", ds_idx |-> idx, attempt |-> att + 1]
    ELSE IF idx < n
         THEN [pc |-> "attempt", ds_idx |-> idx + 1, attempt |-> 1]
         ELSE [pc |-> "returned", ds_idx |-> idx, attempt |-> att]

AfterFailure(idx, att, error, retries, n) ==
    IF ~IsStructural(error) /\ att < retries
    THEN [pc |-> "attempt", ds_idx |-> idx, attempt |-> att + 1]
    ELSE IF idx < n
         THEN [pc |-> "attempt", ds_idx |-> idx + 1, attempt |-> 1]
         ELSE [pc |-> "returned", ds_idx |-> idx, attempt |-> att]

\* Position after a successful attempt (line 124: return result).
AfterSuccessContinue(idx, att, retries, n) ==
    IF idx < n
    THEN [pc |-> "attempt", ds_idx |-> idx + 1, attempt |-> 1]
    ELSE [pc |-> "returned", ds_idx |-> idx, attempt |-> att]

AfterSuccess(idx, att, retries, n) ==
    [pc |-> "returned", ds_idx |-> idx, attempt |-> att]

TrainInit ==
    /\ t_pc = "idle"
    /\ dataset = "None"
    /\ fallback_datasets = <<>>
    /\ max_retries = DefaultMaxRetries
    /\ datasets_to_try = <<>>
    /\ ds_idx = 0
    /\ attempt = 0
    /\ last_error = "None"
    /\ result = [success |-> FALSE, model_path |-> "None", error |-> NoError]
    /\ submissions = <<>>

\* Trainer(max_retries).train(task, dataset, arch, fallback_datasets), lines 74-93
TrainStart ==
    /\ t_pc = "idle"
    /\ \E primary \in Refs, fbs \in SeqsUpTo(Refs, MaxFallbacks), mr \in 0..MaxRetriesMax :
         /\ dataset' = primary
         /\ fallback_datasets' = fbs
         /\ max_retries' = mr
         /\ datasets_to_try' = DatasetsToTry(primary, fbs)
         /\ last_error' = "None"
         /\ IF mr >= 1
            THEN /\ t_pc' = "attempt"
                 /\ ds_idx' = 1
                 /\ attempt' = 1
                 /\ UNCHANGED result
            ELSE \* range(1, max_retries + 1) is empty for every dataset
                 /\ t_pc' = "returned"
                 /\ ds_idx' = Len(DatasetsToTry(primary, fbs))
                 /\ attempt' = 0
                 /\ result' = FailureResult(Len(DatasetsToTry(primary, fbs)), "None")
    /\ UNCHANGED submissions
    /\ UNCHANGED otherThanTrain

Submission(ok, error) ==
    [ref |-> datasets_to_try[ds_idx], ds_idx |-> ds_idx, attempt |-> attempt,
     success |-> ok, error |-> error]

\* One iteration whose job succeeds (lines 96-124).  download is the outcome
\* of _download_model, load the outcome of torch.load on the downloaded file.
TrainAttemptSucceeds ==
    /\ t_pc = "attempt"
    /\ submissions' = Append(submissions, Submission(TRUE, "None"))
    /\ \E download \in {"path", "None"}, load \in {"ok", "raises"} :
         LET next == AfterSuccess(ds_idx, attempt, max_retries, Len(datasets_to_try))
         IN  /\ download = "None" => load = "ok"
             /\ IF next.pc = "returned" /\ download = "path" /\ load = "raises"
                THEN /\ t_pc' = "raised"
                     /\ UNCHANGED result
                ELSE /\ t_pc' = next.pc
                     /\ result' = IF next.pc = "returned"
                                  THEN [success |-> TRUE, model_path |-> download,
                                        error |-> NoError]
                                  ELSE result
             /\ ds_idx' = next.ds_idx
             /\ attempt' = next.attempt
    /\ UNCHANGED <<dataset, fallback_datasets, max_retries, datasets_to_try, last_error>>
    /\ UNCHANGED otherThanTrain

\* One iteration whose job fails with error text e (lines 96-106, 126-148).
TrainAttemptFails ==
    /\ t_pc = "attempt"
    /\ \E e \in Errors :
         LET next == AfterFailure(ds_idx, attempt, e, max_retries, Len(datasets_to_try))
             last == LastErrorAfter(last_error, e)
         IN  /\ submissions' = Append(submissions, Submission(FALSE, e))
             /\ last_error' = last
             /\ t_pc' = next.pc
             /\ ds_idx' = next.ds_idx
             /\ attempt' = next.attempt
             /\ result' = IF next.pc = "returned"
                          THEN FailureResult(Len(datasets_to_try), last)
                          ELSE result
    /\ UNCHANGED <<dataset, fallback_datasets, max_retries, datasets_to_try>>
    /\ UNCHANGED otherThanTrain

TrainNext ==
    \/ TrainStart
    \/ TrainAttemptSucceeds
    \/ TrainAttemptFails

(***************************************************************************)
(*                     Properties of Trainer.train                         *)
(***************************************************************************)

SubmissionsOn(i) == {k \in 1..Len(submissions) : submissions[k].ds_idx = i}

StructuralFailure(k) ==
    /\ ~submissions[k].success
    /\ IsStructural(submissions[k].error)

\* The trainer has left position i of datasets_to_try behind.
MovedPast(i) ==
    \/ t_pc = "attempt" /\ ds_idx > i
    \/ t_pc = "returned" /\ ~result.success

\* C6: a structural error on attempt j of candidate i is the last attempt on
\* candidate i (which so received exactly j attempts), and the next
\* submission, if any, is attempt 1 on candidate i+1.
C6_StructuralShortCircuit ==
    \A k \in 1..Len(submissions) :
        StructuralFailure(k) =>
            LET i == submissions[k].ds_idx
            IN  /\ Cardinality(SubmissionsOn(i)) = submissions[k].attempt
                /\ \A m \in SubmissionsOn(i) : m <= k
                /\ k < Len(submissions) =>
                      /\ submissions[k + 1].ds_idx = i + 1
                      /\ submissions[k + 1].attempt = 1
                      /\ submissions[k + 1].ref = datasets_to_try[i + 1]
                /\ (k = Len(submissions) /\ t_pc = "attempt") =>
                      (ds_idx = i + 1 /\ attempt = 1)

\* C6 witness: with retries left, a structural failure on the first attempt
\* of the first candidate is followed by a submission for the second one.
C6_Witness ==
    /\ Len(submissions) >= 2
    /\ max_retries >= 2
    /\ StructuralFailure(1)
    /\ submissions[2].ds_idx = 2

\* C7: a candidate whose attempts all failed with non-structural errors has
\* received exactly max_retries attempts once the trainer has left it, and
\* never more than max_retries.
C7_RetryBound ==
    \A i \in 1..Len(datasets_to_try) :
        /\ Cardinality(SubmissionsOn(i)) <= max_retries
        /\ ( /\ MovedPast(i)
             /\ \A k \in SubmissionsOn(i) :
                   ~submissions[k].success /\ ~IsStructural(submissions[k].error) )
           => Cardinality(SubmissionsOn(i)) = max_retries

C7_Witness ==
    /\ max_retries = DefaultMaxRetries
    /\ t_pc = "attempt" /\ ds_idx = 2
    /\ Cardinality(SubmissionsOn(1)) = DefaultMaxRetries
    /\ \A k \in SubmissionsOn(1) : ~IsStructural(submissions[k].error)

\* C8: a successful job is the last submission of the run, and the result
\* train returns after it has success = TRUE.
C8_SuccessEndsRun ==
    \A k \in 1..Len(submissions) :
        submissions[k].success =>
            /\ k = Len(submissions)
            /\ t_pc \in {"returned", "raised"}
            /\ t_pc = "returned" => result.success

C8_Witness ==
    /\ t_pc = "returned"
    /\ Len(submissions) >= 2
    /\ submissions[Len(submissions)].success
    /\ submissions[Len(submissions)].attempt < max_retries
    /\ submissions[Len(submissions)].ds_idx < Len(datasets_to_try)

\* C9: when train returns after attempts that all failed, the result has
\* success = FALSE and its error carries the error of the last attempt.
C9_LastErrorReported ==
    ( /\ t_pc = "returned"
      /\ submissions # <<>>
      /\ \A k \in 1..Len(submissions) : ~submissions[k].success )
    => /\ ~result.success
       /\ result.error.kind = "all_failed"
       /\ result.error.datasets = Len(datasets_to_try)
       /\ result.error.text = submissions[Len(submissions)].error

C9_Witness ==
    /\ t_pc = "returned"
    /\ ~result.success
    /\ Len(submissions) >= 3
    /\ submissions[1].error # submissions[Len(submissions)].error
    /\ submissions[1].ds_idx = 1 /\ submissions[Len(submissions)].ds_idx > 1

\* C10 (as claimed): a dataset reference abandoned because of a structural
\* error is never submitted again in the same run.
C10_AbandonedNeverResubmitted ==
    \A j, k \in 1..Len(submissions) :
        (j < k /\ StructuralFailure(j)) => submissions[k].ref # submissions[j].ref

(***************************************************************************)
(*                             Orchestrator.run                            *)
(***************************************************************************)

\* WorkflowResult(success=False, ..., dataset=None, architecture=None,
\* training=None, benchmark=None), lines 84-91; error defaults to None
NewWorkflowResult ==
    [success |-> FALSE, dataset |-> None, architecture |-> None,
     training |-> None, benchmark |-> None, error |-> None]

\* The arguments of run that decide its path, and whether the model file of
\* the task exists (line 146)
OrchestratorArgs ==
    [dataset_ref : {None, Some("owner/a")}, skip_training : BOOLEAN,
     skip_benchmark : BOOLEAN, model_exists : BOOLEAN]

\* What Trainer.train can return (trainer.py:124, 138-148): success with the
\* downloaded path, success without it, or the failure result
TrainingResults ==
    { [success |-> TRUE, model_path |-> Some("model.pth")],
      [success |-> TRUE, model_path |-> None],
      [success |-> FALSE, model_path |-> None] }

StageFailedWithoutError(workflow, text) == workflow

\* result.error = f"<text>: {e}" before `return result` (lines 121-124,
\* 134-137, 168-171, 173-176)
StageFailed(workflow, text) == [workflow EXCEPT !.error = Some(text)]

Called(stage, ok) == Append(o_calls, [stage |-> stage, ok |-> ok])

OrchestratorInit ==
    /\ o_pc = "idle"
    /\ o_args = [dataset_ref |-> None, skip_training |-> FALSE,
                 skip_benchmark |-> FALSE, model_exists |-> FALSE]
    /\ o_result = NewWorkflowResult
    /\ o_calls = <<>>

\* run(task_description, priority, skip_training, skip_benchmark, dataset_ref),
\* lines 52-96
OrchestratorRun ==
    /\ o_pc = "idle"
    /\ o_args' \in OrchestratorArgs
    /\ o_result' = NewWorkflowResult
    /\ o_pc' = "discovery"
    /\ UNCHANGED o_calls
    /\ UNCHANGED otherThanOrchestrator

\* stage 1 with a pre-selected dataset (lines 99-109): discovery is skipped
DiscoveryPreselected ==
    /\ o_pc = "discovery"
    /\ o_args.dataset_ref # None
    /\ o_result' = [o_result EXCEPT !.dataset = o_args.dataset_ref]
    /\ o_pc' = "architecture"
    /\ UNCHANGED <<o_args, o_calls>>
    /\ UNCHANGED otherThanOrchestrator

\* stage 1, discover_all returns datasets (lines 112-120)
DiscoveryFinds ==
    /\ o_pc = "discovery"
    /\ o_args.dataset_ref = None
    /\ \E ref \in Refs : o_result' = [o_result EXCEPT !.dataset = Some(ref)]
    /\ o_calls' = Called("discovery", TRUE)
    /\ o_pc' = "architecture"
    /\ UNCHANGED o_args
    /\ UNCHANGED otherThanOrchestrator

\* stage 1, discover_all returns no dataset or raises (lines 113-114, 121-124)
DiscoveryFails ==
    /\ o_pc = "discovery"
    /\ o_args.dataset_ref = None
    /\ o_result' = StageFailed(o_result, "Dataset discovery failed")
    /\ o_calls' = Called("discovery", FALSE)
    /\ o_pc' = "returned"
    /\ UNCHANGED o_args
    /\ UNCHANGED otherThanOrchestrator

\* stage 2, arch_agent.select returns a configuration (lines 131-133)
ArchitectureSelected ==
    /\ o_pc = "architecture"
    /\ o_result' = [o_result EXCEPT !.architecture = Some("resnet18")]
    /\ o_calls' = Called("architecture", TRUE)
    /\ o_pc' = "training"
    /\ UNCHANGED o_args
    /\ UNCHANGED otherThanOrchestrator

\* stage 2, arch_agent.select raises (lines 134-137)
ArchitectureFails ==
    /\ o_pc = "architecture"
    /\ o_result' = StageFailed(o_result, "Architecture selection failed")
    /\ o_calls' = Called("architecture", FALSE)
    /\ o_pc' = "returned"
    /\ UNCHANGED o_args
    /\ UNCHANGED otherThanOrchestrator

\* line 146: skip_training and model_path.exists()
UsesExistingModel == o_args.skip_training /\ o_args.model_exists

\* stage 3 with an existing model (lines 146-159): no training is run
TrainingSkipped ==
    /\ o_pc = "training"
    /\ UsesExistingModel
    /\ o_result' = [o_result EXCEPT
                      !.training = Some([success |-> TRUE,
                                         model_path |-> Some("model.pth")])]
    /\ o_pc' = "benchmark"
    /\ UNCHANGED <<o_args, o_calls>>
    /\ UNCHANGED otherThanOrchestrator

\* stage 3 with an existing model whose torch.load raises (line 149, outside
\* of any try): the exception leaves run
ExistingModelLoadRaises ==
    /\ o_pc = "training"
    /\ UsesExistingModel
    /\ o_pc' = "raised"
    /\ UNCHANGED <<o_args, o_result, o_calls>>
    /\ UNCHANGED otherThanOrchestrator

\* stage 3, trainer.train returns (lines 161-171)
TrainerReturns ==
    /\ o_pc = "training"
    /\ ~UsesExistingModel
    /\ \E training_result \in TrainingResults :
         LET assigned == [o_result EXCEPT !.training = Some(training_result)]
         IN  IF training_result.success
             THEN /\ o_result' = assigned
                  /\ o_calls' = Called("training", TRUE)
                  /\ o_pc' = "benchmark"
             ELSE /\ o_result' = StageFailed(assigned, "Training failed")
                  /\ o_calls' = Called("training", FALSE)
                  /\ o_pc' = "returned"
    /\ UNCHANGED o_args
    /\ UNCHANGED otherThanOrchestrator

\* stage 3, trainer.train raises (lines 173-176)
TrainerRaises ==
    /\ o_pc = "training"
    /\ ~UsesExistingModel
    /\ o_result' = StageFailed(o_result, "Training error")
    /\ o_calls' = Called("training", FALSE)
    /\ o_pc' = "returned"
    /\ UNCHANGED o_args
    /\ UNCHANGED otherThanOrchestrator

\* lines 183-188: the benchmark is skipped on the flag, without a training
\* result, or without a model path
BenchmarkIsSkipped ==
    \/ o_args.skip_benchmark
    \/ o_result.training = None
    \/ o_result.training[1].model_path = None

\* stage 4 skipped (lines 183-188)
BenchmarkSkipped ==
    /\ o_pc = "benchmark"
    /\ BenchmarkIsSkipped
    /\ o_pc' = "finish"
    /\ UNCHANGED <<o_args, o_result, o_calls>>
    /\ UNCHANGED otherThanOrchestrator

\* stage 4 runs (lines 190-204): a comparison, or no test images
BenchmarkRuns ==
    /\ o_pc = "benchmark"
    /\ ~BenchmarkIsSkipped
    /\ \E comparison \in {None, Some("report")} :
         o_result' = [o_result EXCEPT !.benchmark = comparison]
    /\ o_calls' = Called("benchmark", TRUE)
    /\ o_pc' = "finish"
    /\ UNCHANGED o_args
    /\ UNCHANGED otherThanOrchestrator

\* stage 4 raises (lines 206-208): the error is printed and dropped
BenchmarkRaises ==
    /\ o_pc = "benchmark"
    /\ ~BenchmarkIsSkipped
    /\ o_calls' = Called("benchmark", FALSE)
    /\ o_pc' = "finish"
    /\ UNCHANGED <<o_args, o_result>>
    /\ UNCHANGED otherThanOrchestrator

\* lines 210-218: success is set, the result is saved and returned
OrchestratorSucceeds ==
    /\ o_pc = "finish"
    /\ o_result' = [o_result EXCEPT !.success = TRUE]
    /\ o_pc' = "returned"
    /\ UNCHANGED <<o_args, o_calls>>
    /\ UNCHANGED otherThanOrchestrator

\* lines 211-212: _save_result cannot write the result file and raises
SaveResultRaises ==
    /\ o_pc = "finish"
    /\ o_result' = [o_result EXCEPT !.success = TRUE]
    /\ o_pc' = "raised"
    /\ UNCHANGED <<o_args, o_calls>>
    /\ UNCHANGED otherThanOrchestrator

OrchestratorNext ==
    \/ OrchestratorRun
    \/ DiscoveryPreselected
    \/ DiscoveryFinds
    \/ DiscoveryFails
    \/ ArchitectureSelected
    \/ ArchitectureFails
    \/ TrainingSkipped
    \/ ExistingModelLoadRaises
    \/ TrainerReturns
    \/ TrainerRaises
    \/ BenchmarkSkipped
    \/ BenchmarkRuns
    \/ BenchmarkRaises
    \/ OrchestratorSucceeds
    \/ SaveResultRaises

(***************************************************************************)
(*                    Properties of Orchestrator.run                       *)
(***************************************************************************)

StageRank(stage) ==
    CASE stage = "discovery" -> 1
      [] stage = "architecture" -> 2
      [] stage = "training" -> 3
      [] stage = "benchmark" -> 4

\* C37: the stage collaborators are called in the order discovery,
\* architecture selection, training, benchmark; a failed call of one of the
\* first three is the last call, and run has returned a result with
\* success = FALSE and error set; a returned result whose calls failed in
\* the benchmark at most has success = TRUE; and success = TRUE comes with
\* no error.
C37_StagesAndFailures ==
    /\ \A i, j \in 1..Len(o_calls) :
          i < j => StageRank(o_calls[i].stage) < StageRank(o_calls[j].stage)
    /\ \A i \in 1..Len(o_calls) :
          (~o_calls[i].ok /\ o_calls[i].stage # "benchmark") =>
              /\ i = Len(o_calls)
              /\ o_pc = "returned"
              /\ ~o_result.success
              /\ o_result.error # None
    /\ ( /\ o_pc = "returned"
         /\ \A i \in 1..Len(o_calls) : o_calls[i].ok \/ o_calls[i].stage = "benchmark" )
       => o_result.success
    /\ o_result.success => o_result.error = None

\* C37 witness: run returned success after all four stages were called and
\* the benchmark raised.
C37_Witness ==
    /\ o_pc = "returned"
    /\ o_result.success
    /\ Len(o_calls) = 4
    /\ ~o_calls[4].ok

(***************************************************************************)
(*          The training API: start_training and the job registry          *)
(***************************************************************************)

\* Bounds of the training API model.
MaxJobs == 2
MaxSources == 2

\* executor = ThreadPoolExecutor(max_workers=2) (api/training.py:57)
MaxWorkers == 2

Competition == Url("https", TRUE, "kaggle.com", "/c/titanic", FALSE, FALSE, FALSE)

\* The urls of the stored candidates start_training reads (all lower-case)
TrainingUrls == {KaggleSet, KaggleCatalogue[3], Competition, DataGov}

\* lines 33-39: the text after "kaggle.com/datasets/" when it names
\* username/dataset
DatasetsRef(path) ==
    CASE path = "/datasets/o/n" -> Some("o/n")
      [] path = "/datasets/o/m" -> Some("o/m")
      [] OTHER -> None

\* lines 42-48: a path of the form /username/dataset outside of /c/,
\* /code/, /discussion/ and /datasets/
DirectRef(path) ==
    CASE path = "/o/n" -> Some("o/n")
      [] path = "/o/m" -> Some("o/m")
      [] OTHER -> None

\* rstrip("/") runs before split("?"): a slash in front of a query stays
KeepsSlash(url) == url.slash /\ url.query

WithSlash(ref) == IF ref = "o/n" THEN "o/n/" ELSE "o/m/"

\* extract_kaggle_ref (lines 21-51)
ExtractKaggleRef(url) ==
    IF url.host # "kaggle.com" THEN None
    ELSE IF DatasetsRef(url.path) # None
         THEN IF KeepsSlash(url) THEN Some(WithSlash(DatasetsRef(url.path)[1]))
              ELSE DatasetsRef(url.path)
    ELSE IF DirectRef(url.path) # None /\ ~KeepsSlash(url)
         THEN DirectRef(url.path)
    ELSE None

\* The stored candidates start_training tells apart: selected ones, backups
\* with their score, and any other
TrainingSources ==
    {[url |-> u, status |-> "selected", relevance_score |-> Some(90)] : u \in TrainingUrls}
    \cup {[url |-> u, status |-> "backup", relevance_score |-> Some(n)] :
            u \in TrainingUrls, n \in {71, 90}}
    \cup {[url |-> KaggleSet, status |-> "rejected", relevance_score |-> Some(70)]}

\* The documents find_one can return for the project (None: no such project)
ProjectDocs ==
    {None}
    \cup {Some([selected_source |-> snapshot, sources |-> sources]) :
            snapshot \in {None} \cup {Some([url |-> u]) : u \in TrainingUrls},
            sources \in SeqsUpTo(TrainingSources, MaxSources)}

\* A project whose snapshot yields no reference and whose selected candidate does
NarrowProject ==
    Some([selected_source |-> Some([url |-> DataGov]),
          sources |-> <<[url |-> KaggleSet, status |-> "selected",
                         relevance_score |-> Some(90)]>>])

\* Two scenarios: one job over every project document, and MaxJobs jobs
\* over one document.
JobWorlds ==
    {[project |-> p, jobs |-> 1] : p \in ProjectDocs}
    \cup {[project |-> NarrowProject, jobs |-> MaxJobs]}

\* TrainRequest: dataset_ref and project_id decide the dataset; task,
\* priority and skip_benchmark are passed through
TrainRequests ==
    [dataset_ref : {None, Some("owner/a")},
     project_id : {None, Some("p1"), Some("not-an-object-id")}]

\* lines 212-218: the reference of the first selected candidate that yields one
RECURSIVE FirstSelectedRef(_)
FirstSelectedRef(sources) ==
    IF sources = <<>> THEN None
    ELSE IF Head(sources).status = "selected" /\ ExtractKaggleRef(Head(sources).url) # None
         THEN ExtractKaggleRef(Head(sources).url)
         ELSE FirstSelectedRef(Tail(sources))

\* list.sort(key=relevance_score, reverse=True) is stable: x goes behind the
\* elements whose score is not lower
InsertBackup(sorted, x) ==
    LET n == Cardinality({i \in 1..Len(sorted) :
                            sorted[i].relevance_score[1] >= x.relevance_score[1]})
    IN  SubSeq(sorted, 1, n) \o <<x>> \o SubSeq(sorted, n + 1, Len(sorted))

RECURSIVE SortBackupsFrom(_, _)
SortBackupsFrom(list, sorted) ==
    IF list = <<>> THEN sorted
    ELSE SortBackupsFrom(Tail(list), InsertBackup(sorted, Head(list)))

IsBackup(source) == source.status = "backup"

BackupsInStoredOrder(sources) == SelectSeq(sources, IsBackup)

\* lines 222-223: the backup candidates, sorted by descending relevance score
BackupsByScore(sources) == SortBackupsFrom(SelectSeq(sources, IsBackup), <<>>)

\* lines 224-229: the reference of the first of the list that yields one
RECURSIVE FirstRef(_)
FirstRef(sources) ==
    IF sources = <<>> THEN None
    ELSE IF ExtractKaggleRef(Head(sources).url) # None
         THEN ExtractKaggleRef(Head(sources).url)
         ELSE FirstRef(Tail(sources))

\* lines 198-229: the reference taken from a found project
RefFromProject(project) ==
    LET selected == project.selected_source
        from_snapshot == IF selected # None THEN ExtractKaggleRef(selected[1].url)
                         ELSE None
        from_selected == FirstSelectedRef(project.sources)
    IN  IF from_snapshot # None THEN from_snapshot
        ELSE IF from_selected # None THEN from_selected
        ELSE FirstRef(BackupsByScore(project.sources))

\* lines 191-231: the dataset_ref handed to the worker.  ObjectId raises on
\* an invalid id; the except leaves dataset_ref as it is
ChooseDatasetRef(req, project) ==
    IF req.project_id # None /\ req.dataset_ref = None
    THEN IF req.project_id = Some("not-an-object-id") \/ project = None THEN None
         ELSE RefFromProject(project[1])
    ELSE req.dataset_ref

JobIds == 1..MaxJobs

NoJob ==
    [status |-> "none", completed_at |-> None, result |-> None, error |-> None]

\* lines 235-244
NewJob ==
    [status |-> "pending", completed_at |-> None, result |-> None, error |-> None]

NoWorker == [pc |-> "none", dataset_ref |-> None, result |-> None]

\* What orchestrator.run returns to the worker: WorkflowResult.success and .error
WorkflowOutcomes ==
    { [success |-> TRUE, error |-> None],
      [success |-> FALSE, error |-> Some("Training failed")] }

\* Before any project document is stored nothing is started
NoWorld == [project |-> None, jobs |-> 0]

JobsInit ==
    /\ j_world = NoWorld
    /\ jobs = [j \in JobIds |-> NoJob]
    /\ workers = [j \in JobIds |-> NoWorker]
    /\ request = [dataset_ref |-> None, project_id |-> None]

\* The discovery side has stored what find_one (line 196) will return
ProjectIsStored ==
    /\ j_world = NoWorld
    /\ j_world' \in JobWorlds
    /\ UNCHANGED <<jobs, workers, request>>
    /\ UNCHANGED otherThanJobs

\* start_training (lines 180-262): the dataset is chosen, the job is created
\* pending and run_training_sync is handed to the executor
StartTraining ==
    /\ \E j \in JobIds :
         /\ jobs[j] = NoJob
         /\ \A k \in 1..(j - 1) : jobs[k] # NoJob
         /\ j <= j_world.jobs
         /\ \E req \in TrainRequests :
              /\ request' = req
              /\ jobs' = [jobs EXCEPT ![j] = NewJob]
              /\ workers' = [workers EXCEPT
                               ![j] = [pc |-> "queued",
                                       dataset_ref |-> ChooseDatasetRef(req, j_world.project),
                                       result |-> None]]
    /\ UNCHANGED j_world
    /\ UNCHANGED otherThanJobs

\* The executor's threads that are running a job
Busy == {j \in JobIds : workers[j].pc \notin {"none", "queued", "finished"}}

\* run_training_sync starts on a free thread (line 118)
WorkerStarts(j) ==
    /\ workers[j].pc = "queued"
    /\ Cardinality(Busy) < MaxWorkers
    /\ jobs' = [jobs EXCEPT ![j].status = "running"]
    /\ workers' = [workers EXCEPT ![j].pc = "orchestrating"]
    /\ UNCHANGED <<j_world, request>>
    /\ UNCHANGED otherThanJobs

\* orchestrator.run returns and the result is converted (lines 120-165)
WorkerGetsResult(j) ==
    /\ workers[j].pc = "orchestrating"
    /\ \E outcome \in WorkflowOutcomes :
         workers' = [workers EXCEPT ![j].pc = "status", ![j].result = Some(outcome)]
    /\ UNCHANGED <<j_world, jobs, request>>
    /\ UNCHANGED otherThanJobs

\* Orchestrator(), orchestrator.run or the conversion raises (line 174)
WorkerCatches(j) ==
    /\ workers[j].pc = "orchestrating"
    /\ workers' = [workers EXCEPT ![j].pc = "except_status"]
    /\ UNCHANGED <<j_world, jobs, request>>
    /\ UNCHANGED otherThanJobs

\* line 167
WorkerWritesStatus(j) ==
    /\ workers[j].pc = "status"
    /\ jobs' = [jobs EXCEPT ![j].status = IF workers[j].result[1].success
                                          THEN "completed" ELSE "failed"]
    /\ workers' = [workers EXCEPT ![j].pc = "result"]
    /\ UNCHANGED <<j_world, request>>
    /\ UNCHANGED otherThanJobs

\* line 168
WorkerWritesResult(j) ==
    /\ workers[j].pc = "result"
    /\ jobs' = [jobs EXCEPT ![j].result = workers[j].result]
    /\ workers' = [workers EXCEPT ![j].pc = "completed_at"]
    /\ UNCHANGED <<j_world, request>>
    /\ UNCHANGED otherThanJobs

\* lines 169-171
WorkerWritesCompletedAt(j) ==
    /\ workers[j].pc = "completed_at"
    /\ jobs' = [jobs EXCEPT ![j].completed_at = Some("now")]
    /\ workers' = [workers EXCEPT ![j].pc = IF workers[j].result[1].success
                                            THEN "finished" ELSE "error"]
    /\ UNCHANGED <<j_world, request>>
    /\ UNCHANGED otherThanJobs

\* line 172
WorkerWritesError(j) ==
    /\ workers[j].pc = "error"
    /\ jobs' = [jobs EXCEPT ![j].error = workers[j].result[1].error]
    /\ workers' = [workers EXCEPT ![j].pc = "finished"]
    /\ UNCHANGED <<j_world, request>>
    /\ UNCHANGED otherThanJobs

\* line 175
WorkerExceptWritesStatus(j) ==
    /\ workers[j].pc = "except_status"
    /\ jobs' = [jobs EXCEPT ![j].status = "failed"]
    /\ workers' = [workers EXCEPT ![j].pc = "except_error"]
    /\ UNCHANGED <<j_world, request>>
    /\ UNCHANGED otherThanJobs

\* line 176
WorkerExceptWritesError(j) ==
    /\ workers[j].pc = "except_error"
    /\ jobs' = [jobs EXCEPT ![j].error = Some("exception")]
    /\ workers' = [workers EXCEPT ![j].pc = "except_completed_at"]
    /\ UNCHANGED <<j_world, request>>
    /\ UNCHANGED otherThanJobs

\* line 177
WorkerExceptWritesCompletedAt(j) ==
    /\ workers[j].pc = "except_completed_at"
    /\ jobs' = [jobs EXCEPT ![j].completed_at = Some("now")]
    /\ workers' = [workers EXCEPT ![j].pc = "finished"]
    /\ UNCHANGED <<j_world, request>>
    /\ UNCHANGED otherThanJobs

JobsNext ==
    \/ ProjectIsStored
    \/ StartTraining
    \/ \E j \in JobIds : WorkerStarts(j)
    \/ \E j \in JobIds : WorkerGetsResult(j)
    \/ \E j \in JobIds : WorkerCatches(j)
    \/ \E j \in JobIds : WorkerWritesStatus(j)
    \/ \E j \in JobIds : WorkerWritesResult(j)
    \/ \E j \in JobIds : WorkerWritesCompletedAt(j)
    \/ \E j \in JobIds : WorkerWritesError(j)
    \/ \E j \in JobIds : WorkerExceptWritesStatus(j)
    \/ \E j \in JobIds : WorkerExceptWritesError(j)
    \/ \E j \in JobIds : WorkerExceptWritesCompletedAt(j)

\* The fallback differs from the primary dataset
NotThePrimary(fb) == fb # dataset

C36_SuccessCarriesModelPath ==
    (t_pc = "returned" /\ result.success) => result.model_path # "None"

\* The status changes a job's registry entry may make
Lifecycle ==
    { <<"none", "pending">>, <<"pending", "running">>,
      <<"running", "completed">>, <<"running", "failed">> }

\* C32: a job is created pending, becomes running when its worker starts,
\* ends in exactly one of completed and failed and never changes afterwards,
\* and completed_at is set if and only if the status is completed or failed.
C32_JobLifecycle ==
    /\ [][\A j \in JobIds :
            jobs'[j].status # jobs[j].status
                => <<jobs[j].status, jobs'[j].status>> \in Lifecycle]_vars
    /\ [](\A j \in JobIds :
            jobs[j].completed_at # None <=> jobs[j].status \in {"completed", "failed"})

\* The status changes alone
C32_StatusChangesOnly ==
    [][\A j \in JobIds :
         jobs'[j].status # jobs[j].status
             => <<jobs[j].status, jobs'[j].status>> \in Lifecycle]_vars

\* The window of C32: the status is terminal and completed_at is not yet written
C32_TerminalWithoutCompletedAt ==
    \E j \in JobIds :
        jobs[j].status \in {"completed", "failed"} /\ jobs[j].completed_at = None

\* The references the candidates of a list yield, with their positions
Yielding(sources, status) ==
    {i \in 1..Len(sources) :
        sources[i].status = status /\ ExtractKaggleRef(sources[i].url) # None}

\* The backup that comes first by descending score, the stored order
\* deciding between equal scores
BestBackup(sources) ==
    CHOOSE i \in Yielding(sources, "backup") :
        \A k \in Yielding(sources, "backup") :
            \/ sources[k].relevance_score[1] < sources[i].relevance_score[1]
            \/ sources[k].relevance_score[1] = sources[i].relevance_score[1] /\ i <= k

Min(set) == CHOOSE i \in set : \A k \in set : i <= k

\* The priority order of the dataset for the job started in this step
PriorityOrder(req, project, chosen) ==
    LET snapshot == IF project.selected_source = None THEN None
                    ELSE ExtractKaggleRef(project.selected_source[1].url)
        selected == Yielding(project.sources, "selected")
        backups == Yielding(project.sources, "backup")
    IN  IF snapshot # None THEN chosen = snapshot
        ELSE IF selected # {}
             THEN chosen = ExtractKaggleRef(project.sources[Min(selected)].url)
        ELSE IF backups # {}
             THEN chosen = ExtractKaggleRef(project.sources[BestBackup(project.sources)].url)
        ELSE chosen = None

\* C38: the job's dataset is the request's dataset_ref when given; else the
\* reference from the project's selected-source snapshot; else that of the
\* first candidate with status selected that yields one; else that of the
\* backup with the highest relevance score that yields one; a lower
\* priority is used only when every higher one yields nothing.
C38_DatasetPriority ==
    [][\A j \in JobIds :
         (jobs[j] = NoJob /\ jobs'[j] # NoJob) =>
            LET req == request'
                chosen == workers'[j].dataset_ref
            IN  IF req.dataset_ref # None THEN chosen = req.dataset_ref
                ELSE IF req.project_id = Some("p1") /\ j_world.project # None
                     THEN PriorityOrder(req, j_world.project[1], chosen)
                ELSE chosen = None]_vars

\* A job got a backup's reference while the snapshot and a selected
\* candidate yield none and a lower-scored backup stands first in the list
C38_Witness ==
    \E j \in JobIds :
        /\ workers[j].pc # "none"
        /\ request = [dataset_ref |-> None, project_id |-> Some("p1")]
        /\ j_world.project # None
        /\ LET project == j_world.project[1]
           IN  /\ project.selected_source = Some([url |-> Competition])
               /\ Len(project.sources) = 2
               /\ project.sources[1].status = "backup"
               /\ project.sources[1].relevance_score = Some(71)
               /\ project.sources[1].url = KaggleSet
               /\ project.sources[2].status = "backup"
               /\ project.sources[2].relevance_score = Some(90)
               /\ project.sources[2].url = KaggleCatalogue[3]
               /\ workers[j].dataset_ref = Some("o/m")

\* A job got the selected candidate's reference although a backup scores as high
C38_SelectedBeforeBackup ==
    \E j \in JobIds :
        /\ workers[j].pc # "none"
        /\ request = [dataset_ref |-> None, project_id |-> Some("p1")]
        /\ j_world.project # None
        /\ LET project == j_world.project[1]
           IN  /\ project.selected_source = None
               /\ Len(project.sources) = 2
               /\ project.sources[1].status = "backup"
               /\ project.sources[1].url = KaggleCatalogue[3]
               /\ project.sources[2].status = "selected"
               /\ project.sources[2].url = KaggleSet
               /\ workers[j].dataset_ref = Some("o/n")

Init == PipelineInit /\ CrawlInit /\ TrainInit /\ OrchestratorInit /\ JobsInit

Spec == Init /\ [][PipelineNext]_vars

SpecCrawl == Init /\ [][CrawlNext]_vars

SpecTrain == Init /\ [][TrainNext]_vars

SpecOrchestrator == Init /\ [][OrchestratorNext]_vars

SpecJobs == Init /\ [][JobsNext]_vars

\* train is one synchronous call: it keeps running until it returns or raises
SpecTrainLive == SpecTrain /\ WF_vars(TrainNext)

====
